---- MODULE Spec2Model ----
(***************************************************************************)
(* Model of the agent-loop core of psknlr/tcmskd:                          *)
(*   - biomni/utils/message_trimmer.py      (round-based history trimmer)  *)
(*   - biomni/utils/tool_message_formatter.py (envelope formatter)         *)
(*   - biomni/agent/nodes/execute_node.py   (crash-containment guard)      *)
(*   - biomni/agent/nodes/error_classifier.py, retry_decider.py,           *)
(*     configure_node.py, artifact_store.py, namespace_audit.py            *)
(*   - biomni/agent/graph_state.py          (state fields and reducers)    *)
(*                                                                         *)
(* Spec      : the orchestrator loop, every node merging its update.       *)
(* SpecTrim  : build_remove_messages applied to bounded arbitrary          *)
(*             histories (also malformed ones), then applied and re-run.   *)
(* SpecRetry : decide_retry under weak fairness, for the escalation        *)
(*             liveness property.                                          *)
(***************************************************************************)
EXTENDS Integers, Sequences, FiniteSets, TLC

VARIABLES
    messages,          \* state["messages"]: sequence of turns
    research_log,      \* state["research_log"]: append-only audit log
    artifacts,         \* state["artifacts"]: append-only list (entries abstracted)
    provenance,        \* state["provenance"]: append-only list (length)
    status,            \* state["status"]
    error,             \* state["error"]
    namespace_delta,   \* state["namespace_delta"]
    retry_count,       \* state["_retry_count"]
    pc,                \* position of the orchestrator loop
    pending,           \* call identifiers of the current directive not yet executed
    config,            \* runtime configuration handed to configure_node
    nextId,            \* next fresh turn identifier
    nextCall,          \* next fresh call identifier
    last,              \* the most recent node invocation: its inputs and returned update
    trim,              \* SpecTrim: configuration and deletion sets of the trimmer runs
    registry,          \* SkillRegistry._skills: the directory, in insertion order
    router,            \* SpecRouter: the Router call in progress
    soft,              \* SpecRouter: per name, what followed its last disable
    lock,              \* SpecRegistry: SkillRegistry._lock, the thread that holds it
    threads,           \* SpecRegistry: per thread, the directory operation it is in
    completed,         \* SpecRegistry: the operation that left the lock last
    global_registry    \* SpecGlobal: _global_registry and the instances created

vars == <<messages, research_log, artifacts, provenance, status, error,
          namespace_delta, retry_count, pc, pending, config, nextId, nextCall,
          last, trim, registry, router, soft, lock, threads, completed,
          global_registry>>

(***************************************************************************)
(* Bounds of the model.                                                    *)
(***************************************************************************)
MaxLen      == 4    \* SpecTrim: longest input history
MaxNoId     == 1    \* SpecTrim: most turns of an input history without identifier
MaxKeep     == 2    \* largest keep_rounds / keep_first_n_human tried
MaxCalls    == 2    \* most calls on one directive
MaxMsgs     == 5    \* Spec: most turns ever created in one run
MaxCounter  == 5    \* SpecRetry: cap of the retry counter (the code's ceiling is 3)
MaxLog      == 7    \* SpecRetry: most audit-log entries of one run
MaxSkills   == 11   \* SpecRouter: most capabilities registered at the start
MaxArtifacts == 3   \* SpecStore: most claimed entries of one namespace delta
MaxThreads  == 2    \* SpecRegistry: threads calling the directory
MaxDelta    == 3    \* SpecFormat: serialized lengths tried up to this far above the budget

(***************************************************************************)
(* Program constants.                                                      *)
(***************************************************************************)
DEFAULT_MAX_ROUNDS         == 10
DEFAULT_MAX_TOTAL_CHARS    == 40000
MAX_CONTENT_CHARS          == 10000
MAX_RETRIES                == 3
NoticeLen                  == 54   \* len(TRUNCATION_NOTICE.format(limit=10000))
HintLimit                  == 10   \* skill_router.py line 67: [:10]

None == 0   \* a missing identifier / missing configuration value

Min(a, b) == IF a <= b THEN a ELSE b

(***************************************************************************)
(* Conversation turns (langchain messages).  id = None models a message    *)
(* that carries no identifier.                                             *)
(***************************************************************************)
HumanMessage(id, chars) ==
    [type |-> "human", id |-> id, tool_calls |-> {}, tool_call_id |-> None, chars |-> chars]

AIMessage(id, calls, chars) ==
    [type |-> "ai", id |-> id, tool_calls |-> calls, tool_call_id |-> None, chars |-> chars]

ToolMessage(id, call, chars) ==
    [type |-> "tool", id |-> id, tool_calls |-> {}, tool_call_id |-> call, chars |-> chars]

SystemMessage(id, chars) ==
    [type |-> "system", id |-> id, tool_calls |-> {}, tool_call_id |-> None, chars |-> chars]

\* Python slice seq[:stop]
PySliceTo(seq, stop) ==
    LET n == Len(seq)
        e == IF stop < 0 THEN (IF n + stop >= 0 THEN n + stop ELSE 0) ELSE Min(stop, n)
    IN  SubSeq(seq, 1, e)

RECURSIVE SumChars(_, _)
SumChars(msgs, i) ==
    IF i > Len(msgs) THEN 0 ELSE msgs[i].chars + SumChars(msgs, i + 1)

CountType(msgs, t) == Cardinality({i \in 1..Len(msgs) : msgs[i].type = t})

(***************************************************************************)
(* message_trimmer.py                                                      *)
(***************************************************************************)
\* a plausible slip: only the number of assistant turns is looked at
should_trim_RoundsOnly(msgs, max_total_chars, max_rounds) ==
    CountType(msgs, "ai") > max_rounds * 2

\* should_trim (lines 30-44)
should_trim(msgs, max_total_chars, max_rounds) ==
    LET total_chars      == SumChars(msgs, 1)
        ai_message_count == CountType(msgs, "ai")
    IN  total_chars > max_total_chars \/ ai_message_count > max_rounds * 2

trim_stats(msgs) ==
    LET total_chars == SumChars(msgs, 1)
    IN  [total_messages      |-> Len(msgs),
         total_chars         |-> total_chars,
         estimated_tokens    |-> total_chars \div 4,
         ai_message_count    |-> CountType(msgs, "ai"),
         tool_message_count  |-> CountType(msgs, "tool"),
         human_message_count |-> CountType(msgs, "human")]

\* inner while loop (lines 79-83): walks over the ToolMessages that follow a
\* directive; a round is a sequence of positions of msgs
RECURSIVE CollectRound(_, _, _, _)
CollectRound(msgs, i, tool_call_ids, round_messages) ==
    IF i <= Len(msgs) /\ msgs[i].type = "tool"
    THEN IF msgs[i].tool_call_id \in tool_call_ids
         THEN CollectRound(msgs, i + 1, tool_call_ids \ {msgs[i].tool_call_id},
                           Append(round_messages, i))
         ELSE CollectRound(msgs, i + 1, tool_call_ids, round_messages)
    ELSE [round |-> round_messages, next |-> i]

\* a plausible slip: every assistant turn opens a round, also one without calls
RECURSIVE ScanRounds_AnyAI(_, _, _)
ScanRounds_AnyAI(msgs, i, rounds) ==
    IF i > Len(msgs) THEN rounds
    ELSE IF msgs[i].type = "ai"
         THEN LET r == CollectRound(msgs, i + 1, msgs[i].tool_calls, <<i>>)
              IN  ScanRounds_AnyAI(msgs, r.next, Append(rounds, r.round))
         ELSE ScanRounds_AnyAI(msgs, i + 1, rounds)

\* outer while loop (lines 70-86)
RECURSIVE ScanRounds(_, _, _)
ScanRounds(msgs, i, rounds) ==
    IF i > Len(msgs) THEN rounds
    ELSE IF msgs[i].type = "ai" /\ msgs[i].tool_calls # {}
         THEN LET r == CollectRound(msgs, i + 1, msgs[i].tool_calls, <<i>>)
              IN  ScanRounds(msgs, r.next, Append(rounds, r.round))
         ELSE ScanRounds(msgs, i + 1, rounds)

IdentifyRounds(msgs) == ScanRounds(msgs, 1, <<>>)

\* a plausible slip: drops only the oldest round whatever keep_rounds is
RoundsToDelete_OnlyFirst(rounds, keep_rounds) ==
    IF Len(rounds) > keep_rounds THEN PySliceTo(rounds, 1) ELSE <<>>

\* line 89: rounds[:-keep_rounds] if len(rounds) > keep_rounds else []
RoundsToDelete(rounds, keep_rounds) ==
    IF Len(rounds) > keep_rounds THEN PySliceTo(rounds, 0 - keep_rounds) ELSE <<>>

\* a plausible slip: collects the directive of each round only
IdsOfRounds_DirectiveOnly(msgs, rounds_to_delete) ==
    {msgs[rounds_to_delete[r][1]].id : r \in 1..Len(rounds_to_delete)} \ {None}

\* lines 94-98: identifiers of every turn of the rounds, turns without one skipped
IdsOfRounds(msgs, rounds_to_delete) ==
    UNION {{msgs[rounds_to_delete[r][j]].id : j \in 1..Len(rounds_to_delete[r])} :
              r \in 1..Len(rounds_to_delete)} \ {None}

\* lines 101-107: identifiers of the first keep_first_n_human HumanMessages
ProtectedIds(msgs, keep_first_n_human) ==
    LET humans == {i \in 1..Len(msgs) : msgs[i].type = "human"}
        rank(i) == Cardinality({j \in humans : j <= i})
    IN  {msgs[i].id : i \in {h \in humans : rank(h) <= keep_first_n_human}} \ {None}

build_remove_messages(msgs, keep_rounds, keep_first_n_human) ==
    LET rounds           == IdentifyRounds(msgs)
        rounds_to_delete == RoundsToDelete(rounds, keep_rounds)
    IN  IF rounds_to_delete = <<>> THEN {}
        ELSE IdsOfRounds(msgs, rounds_to_delete) \ ProtectedIds(msgs, keep_first_n_human)

(***************************************************************************)
(* message_summarizer.py: the escalation path.  summarize_and_trim asks    *)
(* the model for a summary of the old turns and deletes them; what is      *)
(* modelled is the set of identifiers its deletion markers name and        *)
(* whether a summary turn is added.                                        *)
(***************************************************************************)
threshold_tokens == 30000      \* should_summarize, default of threshold_tokens

\* SUMMARY_MSG_ID = "history_summary_v2_4" (line 30): the one identifier every
\* summary turn is given, a value no other turn has
SUMMARY_MSG_ID == 1000

\* summarize_and_trim (lines 33-92)
summarize_and_trim(msgs, keep_recent_rounds) ==
    LET ai_rounds == {i \in 1..Len(msgs) :
                         msgs[i].type = "ai" /\ msgs[i].tool_calls # {}}
        n         == Cardinality(ai_rounds)
        \* ai_rounds[-keep_recent_rounds]; ai_rounds[-0] is the first round
        nth       == IF keep_recent_rounds = 0 THEN 1 ELSE n - keep_recent_rounds + 1
        start     == CHOOSE i \in ai_rounds :
                         Cardinality({j \in ai_rounds : j <= i}) = nth
        \* next(i for i, m in enumerate(messages) if m.id == start.id)
        first     == CHOOSE i \in 1..Len(msgs) :
                         /\ msgs[i].id = msgs[start].id
                         /\ \A j \in 1..(i - 1) : msgs[j].id # msgs[start].id
        old       == IF n > keep_recent_rounds THEN 1..(first - 1) ELSE {}
    IN  [summary |-> old # {},
         remove  |-> {msgs[i].id : i \in {j \in old : msgs[j].id # None}}]

\* should_summarize (lines 95-106)
should_summarize(stats, threshold) == stats.estimated_tokens > threshold

(***************************************************************************)
(* graph_state.py: the messages reducer.  An update of the messages field  *)
(* is a list of new turns and of deletion markers (RemoveMessage), the     *)
(* markers after the new turns in every update this code builds: a turn    *)
(* without identifier gets a fresh one, a new turn whose identifier a turn *)
(* of the history has takes its place, the other new turns are appended in *)
(* arrival order, and then each deletion marker removes the turn it names. *)
(***************************************************************************)
add_messages(left, right, fresh) ==
    LET named    == [i \in 1..Len(right.append) |->
                        IF right.append[i].id = None
                        THEN [right.append[i] EXCEPT !.id = fresh + i - 1]
                        ELSE right.append[i]]
        held(id) == \E i \in 1..Len(left) : left[i].id = id
        replaced == [i \in 1..Len(left) |->
                        IF \E j \in 1..Len(named) : named[j].id = left[i].id
                        THEN named[CHOOSE j \in 1..Len(named) :
                                       named[j].id = left[i].id]
                        ELSE left[i]]
        added    == SelectSeq(named, LAMBDA m : ~held(m.id))
    IN  SelectSeq(replaced \o added, LAMBDA m : m.id \notin right.remove)

(***************************************************************************)
(* Envelope error objects.  tag "none" is a missing error (None), "empty"  *)
(* the empty map, "obj" a map with entries; a key that the map does not    *)
(* hold reads "absent".  chars is the length of its serialized form.       *)
(***************************************************************************)
NoError ==
    [tag |-> "none", code |-> "absent", retryable |-> "absent",
     fallback_action |-> "absent", category |-> "absent", severity |-> "absent",
     chars |-> 0]

EmptyError == [NoError EXCEPT !.tag = "empty"]

ErrorObject(code, retryable, fallback_action, chars) ==
    [tag |-> "obj", code |-> code, retryable |-> retryable,
     fallback_action |-> fallback_action, category |-> "absent",
     severity |-> "absent", chars |-> chars]

\* Python truthiness of state["error"] / outputs["error"]
Truthy(e) == e.tag = "obj"

LogEntry(stage, detail, flag) == [stage |-> stage, detail |-> detail, flag |-> flag]

(***************************************************************************)
(* Values a skill_runner can return.  kind "nondict" is any value that is  *)
(* not a map; for a map, outputs / summary / full_log say whether the key  *)
(* is absent, holds None ("null"), holds a non-map value, or holds a map.  *)
(* raw_chars is the length of str(value) for a value that is not a map,    *)
(* and for a map the length of the entries of outputs other than status,   *)
(* summary_for_llm, full_log and error.                                    *)
(***************************************************************************)
NoDelta == [tag |-> "none", new_artifacts |-> <<>>]

Envelope(st, summary, summary_chars, err, log) ==
    [kind |-> "dict", outputs |-> "dict", status |-> st,
     summary |-> summary, summary_chars |-> summary_chars,
     full_log |-> "dict", research_log |-> log, log_chars |-> 0,
     artifacts |-> <<>>, provenance |-> 0,
     namespace_delta |-> NoDelta, error |-> err, raw_chars |-> 0]

NonDictValue(raw_chars) ==
    [Envelope("absent", "absent", 0, NoError, <<>>)
        EXCEPT !.kind = "nondict", !.outputs = "absent", !.full_log = "absent",
               !.raw_chars = raw_chars]

(***************************************************************************)
(* tool_message_formatter.py                                               *)
(***************************************************************************)
\* outputs.get("status", "ok")
StatusOf(envelope) ==
    IF envelope.outputs = "dict" /\ envelope.status # "absent"
    THEN envelope.status ELSE "ok"

\* a plausible slip: the audit log of the Envelope is put into the payload too
build_payload_from_summary_WithLog(envelope) ==
    [view |-> "summary", status |-> StatusOf(envelope),
     summary_chars |-> envelope.summary_chars + envelope.log_chars,
     error |-> IF Truthy(envelope.error) THEN envelope.error ELSE NoError]

\* _build_payload_from_summary (lines 62-97): status, the summary fields, and
\* the top-level error object when it is truthy
build_payload_from_summary(envelope) ==
    [view |-> "summary", status |-> StatusOf(envelope),
     summary_chars |-> envelope.summary_chars,
     error |-> IF Truthy(envelope.error) THEN envelope.error ELSE NoError]

\* lines 47-49: outputs without full_log
payload_from_outputs(envelope) ==
    [view |-> "outputs",
     status |-> IF envelope.outputs = "dict" THEN envelope.status ELSE "absent",
     summary_chars |-> IF envelope.outputs = "dict" THEN envelope.raw_chars ELSE 0,
     error |-> IF envelope.outputs = "dict" THEN envelope.error ELSE NoError]

\* str(envelope) of a value that is not a map (line 38)
payload_raw(envelope) ==
    [view |-> "raw", status |-> "absent", summary_chars |-> envelope.raw_chars,
     error |-> NoError]

\* length of json.dumps(payload) / str(payload): braces, the status entry,
\* the summary entries and the error entry
SerializedChars(payload) ==
    IF payload.view = "raw" THEN payload.summary_chars
    ELSE 2 + (IF payload.status = "absent" THEN 0 ELSE 10 + Len(payload.status))
           + payload.summary_chars + payload.error.chars

\* a plausible slip: cuts at the budget and then appends the notice
truncate_NoticeOnTop(payload) ==
    LET n == SerializedChars(payload)
    IN  IF n <= MAX_CONTENT_CHARS
        THEN [payload |-> payload, kept |-> n, notice |-> FALSE]
        ELSE [payload |-> payload, kept |-> Min(n, MAX_CONTENT_CHARS), notice |-> TRUE]

\* a plausible slip: a string exactly at the budget is cut too
truncate_StrictBelow(payload) ==
    LET n      == SerializedChars(payload)
        cut_at == MAX_CONTENT_CHARS - NoticeLen
    IN  IF n < MAX_CONTENT_CHARS
        THEN [payload |-> payload, kept |-> n, notice |-> FALSE]
        ELSE [payload |-> payload, kept |-> Min(n, cut_at), notice |-> TRUE]

\* _truncate (lines 100-106).  A content string is the first `kept` characters
\* of the serialized payload, followed by the notice when notice is TRUE.
truncate(payload) ==
    LET n      == SerializedChars(payload)
        cut_at == MAX_CONTENT_CHARS - NoticeLen
    IN  IF n <= MAX_CONTENT_CHARS
        THEN [payload |-> payload, kept |-> n, notice |-> FALSE]
        ELSE [payload |-> payload, kept |-> Min(n, cut_at), notice |-> TRUE]

ContentChars(content) == content.kept + (IF content.notice THEN NoticeLen ELSE 0)

\* a plausible slip: the rendering of a value that is not a map is returned
\* as it is, without the cut
format_skill_output_to_string_RawUncut(envelope) ==
    IF envelope.kind # "dict"
    THEN [raised |-> "none",
          content |-> [payload |-> payload_raw(envelope),
                       kept |-> SerializedChars(payload_raw(envelope)),
                       notice |-> FALSE]]
    ELSE IF envelope.outputs = "nondict"
    THEN [raised |-> "AttributeError", content |-> truncate(payload_raw(envelope))]
    ELSE IF envelope.outputs = "dict" /\ envelope.summary = "nondict"
    THEN [raised |-> "AttributeError", content |-> truncate(payload_raw(envelope))]
    ELSE IF envelope.outputs = "dict" /\ envelope.summary = "dict"
    THEN [raised |-> "none", content |-> truncate(build_payload_from_summary(envelope))]
    ELSE [raised |-> "none", content |-> truncate(payload_from_outputs(envelope))]

\* format_skill_output_to_string (lines 21-59): the content string, or the
\* AttributeError of .get on a value that is not a map
format_skill_output_to_string(envelope) ==
    IF envelope.kind # "dict"
    THEN [raised |-> "none", content |-> truncate(payload_raw(envelope))]
    ELSE IF envelope.outputs = "nondict"
    THEN [raised |-> "AttributeError", content |-> truncate(payload_raw(envelope))]
    ELSE IF envelope.outputs = "dict" /\ envelope.summary = "nondict"
    THEN [raised |-> "AttributeError", content |-> truncate(payload_raw(envelope))]
    ELSE IF envelope.outputs = "dict" /\ envelope.summary = "dict"
    THEN [raised |-> "none", content |-> truncate(build_payload_from_summary(envelope))]
    ELSE [raised |-> "none", content |-> truncate(payload_from_outputs(envelope))]

(***************************************************************************)
(* Node updates.  A node returns a partial map of state fields; keys names *)
(* the fields the map holds, the other fields of the record are unused.    *)
(***************************************************************************)
NoUpdate ==
    [keys |-> {}, messages |-> [append |-> <<>>, remove |-> {}], research_log |-> <<>>,
     artifacts |-> <<>>, provenance |-> 0, status |-> "ok", error |-> NoError,
     namespace_delta |-> NoDelta, retry_count |-> 0]

(***************************************************************************)
(* execute_node.py                                                         *)
(***************************************************************************)
\* length of plan_correction_hint: a fixed text, which for EXECUTION_CRASH
\* also quotes the exception (lines 68-71, 82-85, 97-101)
HintChars(error_code, msg_chars) ==
    60 + (IF error_code = "EXECUTION_CRASH" THEN 20 + msg_chars ELSE 0)

\* a plausible slip: the fallback action does not follow the retryable flag
make_crash_envelope_AlwaysReview(error_code, msg_chars, traceback_chars, retryable) ==
    LET short_msg == 20 + msg_chars
        hint      == HintChars(error_code, msg_chars)
    IN  [kind |-> "dict", outputs |-> "dict", status |-> "error",
         summary |-> "dict",
         summary_chars |-> 60 + short_msg + hint,
         full_log |-> "dict",
         research_log |-> <<LogEntry("warn", error_code, FALSE)>>,
         log_chars |-> 60 + short_msg + Min(traceback_chars, 2000),
         artifacts |-> <<>>, provenance |-> 0,
         namespace_delta |-> NoDelta,
         error |-> ErrorObject(error_code,
                               IF retryable THEN "true" ELSE "false",
                               "human_review",
                               120 + short_msg + 2 * hint),
         raw_chars |-> 0]

\* _make_crash_envelope (lines 152-205)
make_crash_envelope(error_code, msg_chars, traceback_chars, retryable) ==
    LET short_msg == 20 + msg_chars
        hint      == HintChars(error_code, msg_chars)
    IN  [kind |-> "dict", outputs |-> "dict", status |-> "error",
         summary |-> "dict",
         summary_chars |-> 60 + short_msg + hint,
         full_log |-> "dict",
         research_log |-> <<LogEntry("warn", error_code, FALSE)>>,
         log_chars |-> 60 + short_msg + Min(traceback_chars, 2000),
         artifacts |-> <<>>, provenance |-> 0,
         namespace_delta |-> NoDelta,
         error |-> ErrorObject(error_code,
                               IF retryable THEN "true" ELSE "false",
                               IF retryable THEN "retry_with_plan_correction"
                                            ELSE "human_review",
                               120 + short_msg + 2 * hint),
         raw_chars |-> 0]

\* what calling skill_runner(skill_name, skill_args) does: raise or return
Returns(value) ==
    [raises |-> "none", msg_chars |-> 0, traceback_chars |-> 0, value |-> value]

Raises(exc, msg_chars) ==
    [raises |-> exc, msg_chars |-> msg_chars, traceback_chars |-> 300 + msg_chars,
     value |-> NonDictValue(0)]

\* a plausible slip: a bare except in place of except Exception, so that the
\* termination signals are turned into crash envelopes too
GuardedCall_BareExcept(outcome) ==
    CASE outcome.raises = "none" ->
            [raised |-> "none", skill_output |-> outcome.value]
      [] outcome.raises = "MemoryError" ->
            [raised |-> "none",
             skill_output |-> make_crash_envelope("EXECUTION_OOM", outcome.msg_chars,
                                                  outcome.traceback_chars, TRUE)]
      [] outcome.raises = "TimeoutError" ->
            [raised |-> "none",
             skill_output |-> make_crash_envelope("EXECUTION_TIMEOUT", outcome.msg_chars,
                                                  outcome.traceback_chars, TRUE)]
      [] OTHER ->
            [raised |-> "none",
             skill_output |-> make_crash_envelope("EXECUTION_CRASH", outcome.msg_chars,
                                                  outcome.traceback_chars, FALSE)]

\* lines 57-102: the try/except around the skill_runner call; the exceptions
\* that no handler catches leave skill_output unbound
GuardedCall(outcome) ==
    CASE outcome.raises = "none" ->
            [raised |-> "none", skill_output |-> outcome.value]
      [] outcome.raises = "MemoryError" ->
            [raised |-> "none",
             skill_output |-> make_crash_envelope("EXECUTION_OOM", outcome.msg_chars,
                                                  outcome.traceback_chars, TRUE)]
      [] outcome.raises = "TimeoutError" ->
            [raised |-> "none",
             skill_output |-> make_crash_envelope("EXECUTION_TIMEOUT", outcome.msg_chars,
                                                  outcome.traceback_chars, TRUE)]
      [] outcome.raises = "Exception" ->
            [raised |-> "none",
             skill_output |-> make_crash_envelope("EXECUTION_CRASH", outcome.msg_chars,
                                                  outcome.traceback_chars, FALSE)]
      [] OTHER ->
            [raised |-> outcome.raises, skill_output |-> outcome.value]

\* line 105
ToolContent(skill_output) == format_skill_output_to_string(skill_output)

\* a plausible slip: the ToolMessage is built without the call identifier
ToolCallIdOf_Missing(tool_call_id) == None

\* line 54 and line 109: the call identifier the ToolMessage answers
ToolCallIdOf(tool_call_id) == tool_call_id

\* lines 113-147: the audit data and the returned map, skill_output a map
ExecuteUpdate(tool_call_id, skill_output, content) ==
    LET has_outputs == skill_output.outputs = "dict"
        has_log     == has_outputs /\ skill_output.full_log = "dict"
        st          == StatusOf(skill_output)
        err         == IF has_outputs THEN skill_output.error ELSE NoError
        ns_delta    == IF has_log THEN skill_output.namespace_delta ELSE NoDelta
        new_logs    == (IF has_log THEN skill_output.research_log ELSE <<>>)
                       \o <<LogEntry("tool_message_formatted", st,
                                     ContentChars(content) >= 10000)>>
    IN  [keys |-> {"messages", "research_log", "artifacts", "provenance", "status"}
                  \cup (IF ns_delta.tag = "obj" THEN {"namespace_delta"} ELSE {})
                  \cup (IF Truthy(err) THEN {"error"} ELSE {}),
         messages |-> [append |-> <<ToolMessage(None, ToolCallIdOf(tool_call_id),
                                                ContentChars(content))>>,
                       remove |-> {}],
         research_log |-> new_logs,
         artifacts |-> IF has_log THEN skill_output.artifacts ELSE <<>>,
         provenance |-> IF has_log THEN skill_output.provenance ELSE 0,
         status |-> st,
         error |-> err,
         namespace_delta |-> ns_delta,
         retry_count |-> 0]

\* execute_skill (lines 28-147): raised names the exception that leaves the
\* function ("none": it returns update)
execute_skill(tool_call_id, outcome) ==
    LET g   == GuardedCall(outcome)
        fmt == ToolContent(g.skill_output)
    IN  IF g.raised # "none"
        THEN [raised |-> g.raised, update |-> NoUpdate, content |-> fmt.content]
        ELSE IF fmt.raised # "none"
        THEN [raised |-> fmt.raised, update |-> NoUpdate, content |-> fmt.content]
        ELSE IF g.skill_output.kind # "dict"            \* line 114: .get on a non-map
        THEN [raised |-> "AttributeError", update |-> NoUpdate, content |-> fmt.content]
        ELSE IF g.skill_output.outputs = "dict" /\ g.skill_output.full_log = "nondict"
        THEN [raised |-> "AttributeError", update |-> NoUpdate, content |-> fmt.content]
        ELSE [raised |-> "none",
              update |-> ExecuteUpdate(tool_call_id, g.skill_output, fmt.content),
              content |-> fmt.content]

(***************************************************************************)
(* error_classifier.py                                                     *)
(***************************************************************************)
Classification(category, severity, retryable) ==
    [category |-> category, severity |-> severity, retryable |-> retryable]

\* ERROR_CATEGORIES (lines 14-25) with the UNKNOWN fallback of line 45
ERROR_CATEGORIES(code) ==
    CASE code = "EXECUTION_CRASH"   -> Classification("BUG", "high", "false")
      [] code = "EXECUTION_OOM"     -> Classification("RESOURCE", "medium", "true")
      [] code = "EXECUTION_TIMEOUT" -> Classification("RESOURCE", "medium", "true")
      [] code = "TOOL_NOT_FOUND"    -> Classification("CONFIG", "high", "false")
      [] code = "INVALID_ARGS"      -> Classification("INPUT", "low", "true")
      [] code = "PERMISSION_DENIED" -> Classification("AUTH", "high", "false")
      [] code = "NETWORK_ERROR"     -> Classification("TRANSIENT", "low", "true")
      [] code = "DATA_NOT_FOUND"    -> Classification("DATA", "medium", "false")
      [] code = "SCHEMA_VIOLATION"  -> Classification("CONTRACT", "high", "false")
      [] OTHER                      -> Classification("UNKNOWN", "high", "false")

\* a plausible slip: the taxonomy default replaces the flag the error carries
classify_error_TableWins(state_error) ==
    IF ~Truthy(state_error) THEN NoUpdate
    ELSE LET error_code     == IF state_error.code = "absent" THEN "UNKNOWN"
                               ELSE state_error.code
             classification == ERROR_CATEGORIES(error_code)
             enriched_error ==
                 [state_error EXCEPT
                     !.category  = classification.category,
                     !.severity  = classification.severity,
                     !.retryable = classification.retryable]
         IN  [NoUpdate EXCEPT
                 !.keys = {"error", "research_log"},
                 !.error = enriched_error,
                 !.research_log = <<LogEntry("error_classifier", error_code,
                                             enriched_error.retryable = "true")>>]

\* a plausible slip: an error that already carries a category has its flag
\* reset to the taxonomy default
classify_error_ReclassifyResets(state_error) ==
    IF ~Truthy(state_error) THEN NoUpdate
    ELSE LET error_code     == IF state_error.code = "absent" THEN "UNKNOWN"
                               ELSE state_error.code
             classification == ERROR_CATEGORIES(error_code)
             enriched_error ==
                 [state_error EXCEPT
                     !.category  = classification.category,
                     !.severity  = classification.severity,
                     !.retryable = IF state_error.retryable = "absent"
                                      \/ state_error.category # "absent"
                                   THEN classification.retryable
                                   ELSE state_error.retryable]
         IN  [NoUpdate EXCEPT
                 !.keys = {"error", "research_log"},
                 !.error = enriched_error,
                 !.research_log = <<LogEntry("error_classifier", error_code,
                                             enriched_error.retryable = "true")>>]

\* classify_error (lines 28-69)
classify_error(state_error) ==
    IF ~Truthy(state_error) THEN NoUpdate
    ELSE LET error_code     == IF state_error.code = "absent" THEN "UNKNOWN"
                               ELSE state_error.code
             classification == ERROR_CATEGORIES(error_code)
             enriched_error ==
                 [state_error EXCEPT
                     !.category  = classification.category,
                     !.severity  = classification.severity,
                     !.retryable = IF state_error.retryable = "absent"
                                   THEN classification.retryable
                                   ELSE state_error.retryable]
         IN  [NoUpdate EXCEPT
                 !.keys = {"error", "research_log"},
                 !.error = enriched_error,
                 !.research_log = <<LogEntry("error_classifier", error_code,
                                             enriched_error.retryable = "true")>>]

(***************************************************************************)
(* retry_decider.py                                                        *)
(***************************************************************************)
\* a plausible slip: the ceiling is never compared with the counter
Decision_NoCeiling(state_error, count) ==
    IF ~Truthy(state_error) THEN "end"
    ELSE IF state_error.retryable # "true" THEN "escalate"
    ELSE "retry"

\* a plausible slip: the retryable flag is not looked at
Decision_IgnoreRetryable(state_error, count) ==
    IF ~Truthy(state_error) THEN "end"
    ELSE IF count >= MAX_RETRIES THEN "escalate"
    ELSE "retry"

\* lines 27-45: the branch taken
Decision(state_error, count) ==
    IF ~Truthy(state_error) THEN "end"
    ELSE IF state_error.retryable # "true" THEN "escalate"
    ELSE IF count >= MAX_RETRIES THEN "escalate"
    ELSE "retry"

\* a plausible slip: the counter is advanced whatever the decision is
decide_retry_AlwaysCount(state_error, count) ==
    [NoUpdate EXCEPT
        !.keys = {"status", "research_log", "_retry_count"},
        !.status = IF Decision(state_error, count) = "retry" THEN "retrying"
                   ELSE IF Decision(state_error, count) = "end" THEN "ok" ELSE "error",
        !.research_log = IF Decision(state_error, count) = "end" THEN <<>>
                         ELSE <<LogEntry("retry_decider", Decision(state_error, count),
                                         FALSE)>>,
        !.retry_count = count + 1]

\* decide_retry (lines 17-61)
decide_retry(state_error, count) ==
    LET decision == Decision(state_error, count)
    IN  IF decision = "end"
        THEN [NoUpdate EXCEPT !.keys = {"status", "research_log"}, !.status = "ok"]
        ELSE LET updates ==
                     [NoUpdate EXCEPT
                         !.keys = {"status", "research_log"},
                         !.status = IF decision = "retry" THEN "retrying" ELSE "error",
                         !.research_log = <<LogEntry("retry_decider", decision, FALSE)>>]
             IN  IF decision = "retry"
                 THEN [updates EXCEPT !.keys = @ \cup {"_retry_count"},
                                      !.retry_count = count + 1]
                 ELSE updates

(***************************************************************************)
(* configure_node.py                                                       *)
(***************************************************************************)
\* config.get(key, default)
ConfigGet(cfg, key, default) == IF key \in cfg.keys THEN cfg[key] ELSE default

\* configure_node (lines 20-88)
configure_node(msgs, cfg) ==
    LET keep_rounds      == ConfigGet(cfg, "keep_rounds", 10)
        keep_first_human == ConfigGet(cfg, "keep_first_n_human", 1)
        remove_msgs      == build_remove_messages(msgs, keep_rounds, keep_first_human)
    IN  IF should_trim(msgs, DEFAULT_MAX_TOTAL_CHARS, DEFAULT_MAX_ROUNDS)
        THEN IF remove_msgs # {}
             THEN [NoUpdate EXCEPT
                      !.keys = {"messages", "research_log"},
                      !.messages = [append |-> <<>>, remove |-> remove_msgs],
                      !.research_log = <<LogEntry("configure", "trimmed", TRUE)>>]
             ELSE [NoUpdate EXCEPT
                      !.keys = {"research_log"},
                      !.research_log = <<LogEntry("configure", "nothing_to_delete", TRUE)>>]
        ELSE [NoUpdate EXCEPT
                 !.keys = {"research_log"},
                 !.research_log = <<LogEntry("configure", "normal", FALSE)>>]

(***************************************************************************)
(* artifact_store.py                                                       *)
(***************************************************************************)
\* one claimed artifact: kind "str" (a bare path), "dict" (a record) or
\* "other"; exists says whether os.path.exists finds the file
Claimed(kind, exists) == [kind |-> kind, exists |-> exists]

\* lines 50-80: the loop over the claimed entries; an entry that is neither a
\* string nor a map is passed over, the others are recorded when the file
\* exists and put on the skipped list when it does not
ScanClaimed(paths) ==
    LET usable == SelectSeq(paths, LAMBDA a : a.kind \in {"str", "dict"})
    IN  [validated |-> SelectSeq(usable, LAMBDA a : a.exists),
         skipped   |-> SelectSeq(usable, LAMBDA a : ~a.exists)]

\* store_artifacts (lines 25-97); the one audit entry names the skipped list
\* when it is not empty
store_artifacts(ns_delta) ==
    LET paths     == IF ns_delta.tag = "obj" THEN ns_delta.new_artifacts ELSE <<>>
        validated == ScanClaimed(paths).validated
        skipped   == ScanClaimed(paths).skipped
    IN  IF paths = <<>> THEN NoUpdate
        ELSE IF validated = <<>> /\ skipped = <<>> THEN NoUpdate
        ELSE [NoUpdate EXCEPT
                 !.keys = {"artifacts", "research_log"},
                 !.artifacts = validated,
                 !.research_log = <<LogEntry("artifact_store", "validated",
                                             skipped # <<>>)>>]

(***************************************************************************)
(* namespace_audit.py                                                      *)
(***************************************************************************)
\* audit_namespace (lines 29-101); namespace is "empty", "clean" or
\* "violations" (it holds a value of a large-object type or size)
audit_namespace(namespace) ==
    IF namespace = "empty" THEN NoUpdate
    ELSE [NoUpdate EXCEPT
             !.keys = {"research_log"},
             !.research_log = <<LogEntry("namespace_audit", namespace,
                                         namespace = "violations")>>]

(***************************************************************************)
(* skills/skill_registry.py.  The directory is a dict, which keeps the     *)
(* insertion order: a sequence of SkillMeta records, one per name.  Every  *)
(* operation runs under the directory's lock, hence is one step.           *)
(***************************************************************************)
NoRunner == "none"   \* runner: Callable | None = None

SkillMeta(name, runner, enabled) == [name |-> name, runner |-> runner, enabled |-> enabled]

NoSkill == SkillMeta(None, NoRunner, FALSE)   \* self._skills.get(name) finding nothing

Contains(reg, name) == \E i \in 1..Len(reg) : reg[i].name = name

\* a plausible slip: register adds an entry without looking for the name
register_AppendAlways(reg, skill) == Append(reg, skill)

\* register (lines 56-66): insert, or replace in place
register(reg, skill) ==
    IF Contains(reg, skill.name)
    THEN [i \in 1..Len(reg) |-> IF reg[i].name = skill.name THEN skill ELSE reg[i]]
    ELSE Append(reg, skill)

\* unregister (lines 68-75)
unregister(reg, name) == SelectSeq(reg, LAMBDA sk : sk.name # name)

\* enable (lines 77-83) and disable (lines 85-91)
enable(reg, name) ==
    [i \in 1..Len(reg) |->
        IF reg[i].name = name THEN [reg[i] EXCEPT !.enabled = TRUE] ELSE reg[i]]

\* a plausible slip: disable removes the entry
disable_Hard(reg, name) == SelectSeq(reg, LAMBDA sk : sk.name # name)

disable(reg, name) ==
    [i \in 1..Len(reg) |->
        IF reg[i].name = name THEN [reg[i] EXCEPT !.enabled = FALSE] ELSE reg[i]]

\* get (lines 95-98)
get(reg, name) ==
    IF Contains(reg, name)
    THEN reg[CHOOSE i \in 1..Len(reg) : reg[i].name = name]
    ELSE NoSkill

\* get_runner (lines 100-104)
get_runner(reg, name) ==
    LET skill == get(reg, name)
    IN  IF skill # NoSkill /\ skill.enabled THEN skill.runner ELSE NoRunner

\* list_all (lines 106-112)
list_all(reg, enabled_only) ==
    IF enabled_only THEN SelectSeq(reg, LAMBDA sk : sk.enabled) ELSE reg

(***************************************************************************)
(* skills/skill_router.py.  The envelopes the Router synthesizes are       *)
(* Envelope records; the names listed in the next-step hint of the         *)
(* not-found envelope are kept beside it.                                  *)
(***************************************************************************)
\* a plausible slip: the listing is not cut
AvailableNames_Uncut(reg) ==
    [i \in 1..Len(list_all(reg, TRUE)) |-> list_all(reg, TRUE)[i].name]

\* line 67: [s.name for s in registry.list_all(enabled_only=True)][:10]
AvailableNames(reg) ==
    PySliceTo([i \in 1..Len(list_all(reg, TRUE)) |-> list_all(reg, TRUE)[i].name],
              HintLimit)

\* _make_not_found_envelope (lines 65-95)
make_not_found_envelope(available) ==
    Envelope("error", "dict", 40 + 8 * Len(available),
             ErrorObject("TOOL_NOT_FOUND", "false", "human_review",
                         120 + 16 * Len(available)),
             <<>>)

\* _make_disabled_envelope (lines 98-124)
make_disabled_envelope ==
    Envelope("error", "dict", 40,
             ErrorObject("PERMISSION_DENIED", "false", "human_review", 120), <<>>)

\* a plausible slip: a contract violation marked as worth retrying
make_invalid_output_envelope_Retryable ==
    Envelope("error", "dict", 40,
             ErrorObject("SCHEMA_VIOLATION", "true", "human_review", 120), <<>>)

\* _make_invalid_output_envelope (lines 127-156)
make_invalid_output_envelope ==
    Envelope("error", "dict", 40,
             ErrorObject("SCHEMA_VIOLATION", "false", "human_review", 120), <<>>)

\* a plausible slip: only the type of the returned value is looked at
IsValidOutput_MapOnly(result) == result.kind = "dict"

\* line 59: isinstance(result, dict) and "outputs" in result
IsValidOutput(result) == result.kind = "dict" /\ result.outputs # "absent"

\* a plausible slip: the Router contains the executable's failure itself and
\* answers with one of its own Envelopes
InvokeRunner_Contained(outcome) ==
    [raised |-> "none",
     result |-> IF outcome.raises # "none" \/ ~IsValidOutput(outcome.value)
                THEN make_invalid_output_envelope
                ELSE outcome.value]

\* SkillRouter.__call__, lines 56-62: result = runner(skill_args) with no
\* try around it, then the check of the shape of what it returned
InvokeRunner(outcome) ==
    [raised |-> outcome.raises,
     result |-> IF outcome.raises # "none" THEN NonDictValue(0)
                ELSE IF ~IsValidOutput(outcome.value)
                THEN make_invalid_output_envelope
                ELSE outcome.value]

\* the Router call in progress: where it stands, what it read so far, what
\* it returned; absent_at_call, absent_throughout and enabled_at_listing
\* record what the directory held when the Router read it, toggled_only that
\* the name was registered with an executable when the call began and that
\* the other threads only enabled and disabled since
IdleRouter ==
    [pc |-> "idle", skill_name |-> None, runner |-> NoRunner, invoked |-> 0,
     outcome |-> Returns(NonDictValue(0)), raised |-> "none",
     result |-> NonDictValue(0), available |-> <<>>,
     absent_at_call |-> FALSE, absent_throughout |-> FALSE,
     enabled_at_listing |-> {},
     disabled_throughout |-> FALSE, kept_throughout |-> FALSE,
     toggled_only |-> FALSE]

\* what followed the last disable(name) that found the name: the runner the
\* entry had then, whether enable(name) came next, whether the name was
\* unregistered meanwhile; register(name) closes the record
NoWindow == [phase |-> "none", runner |-> NoRunner, unregistered |-> FALSE]

WindowAfter(w, op, present, runner) ==
    CASE op = "disable" ->
            IF present
            THEN [phase |-> "disabled", runner |-> runner, unregistered |-> FALSE]
            ELSE w
      [] op = "enable" ->
            IF w.phase = "disabled" THEN [w EXCEPT !.phase = "enabled"] ELSE w
      [] op = "unregister" ->
            IF w.phase = "disabled" THEN [w EXCEPT !.unregistered = TRUE]
            ELSE NoWindow
      [] OTHER -> NoWindow

\* disable(name) returned and neither enable(name) nor register of the name
\* followed
Disabled(w) == w.phase = "disabled"

\* the same, and no unregister(name) followed either
DisabledAndKept(w) == w.phase = "disabled" /\ ~w.unregistered

\* threads calling the directory: the operation a thread is in, the
\* directory it read on entering, the value it is about to return
Op(kind, name, runner, enabled) ==
    [kind |-> kind, name |-> name, runner |-> runner, enabled |-> enabled]

NoOp == Op("none", None, NoRunner, FALSE)

IdleThread == [pc |-> "idle", op |-> NoOp, seen |-> <<>>, result |-> None]

NoCompleted ==
    [thread |-> None, op |-> NoOp, before |-> <<>>, after |-> <<>>, result |-> None]

\* _global_registry = None (line 192), no instance created yet
NoGlobal == [current |-> None, instances |-> <<>>]

NoRouting ==
    /\ registry = <<>>
    /\ router = IdleRouter
    /\ soft = <<>>
    /\ lock = None
    /\ threads = <<>>
    /\ completed = NoCompleted
    /\ global_registry = NoGlobal

(***************************************************************************)
(* graph_state.py: merge of a node's update into the state, each field by  *)
(* its reducer (messages: add_messages; research_log, artifacts,           *)
(* provenance: operator.add; the other fields: last write wins).           *)
(***************************************************************************)
\* a plausible slip: research_log declared without its reducer, so that the
\* last update wins
Merge_LogOverwritten(u) ==
    /\ messages' = IF "messages" \in u.keys
                   THEN add_messages(messages, u.messages, nextId) ELSE messages
    /\ nextId' = IF "messages" \in u.keys
                 THEN nextId + Len(u.messages.append) ELSE nextId
    /\ research_log' = IF "research_log" \in u.keys
                       THEN u.research_log ELSE research_log
    /\ artifacts' = IF "artifacts" \in u.keys
                    THEN artifacts \o u.artifacts ELSE artifacts
    /\ provenance' = IF "provenance" \in u.keys
                     THEN provenance + u.provenance ELSE provenance
    /\ status' = IF "status" \in u.keys THEN u.status ELSE status
    /\ error' = IF "error" \in u.keys THEN u.error ELSE error
    /\ namespace_delta' = IF "namespace_delta" \in u.keys
                          THEN u.namespace_delta ELSE namespace_delta
    /\ retry_count' = IF "_retry_count" \in u.keys THEN u.retry_count ELSE retry_count

Merge(u) ==
    /\ messages' = IF "messages" \in u.keys
                   THEN add_messages(messages, u.messages, nextId) ELSE messages
    /\ nextId' = IF "messages" \in u.keys
                 THEN nextId + Len(u.messages.append) ELSE nextId
    /\ research_log' = IF "research_log" \in u.keys
                       THEN research_log \o u.research_log ELSE research_log
    /\ artifacts' = IF "artifacts" \in u.keys
                    THEN artifacts \o u.artifacts ELSE artifacts
    /\ provenance' = IF "provenance" \in u.keys
                     THEN provenance + u.provenance ELSE provenance
    /\ status' = IF "status" \in u.keys THEN u.status ELSE status
    /\ error' = IF "error" \in u.keys THEN u.error ELSE error
    /\ namespace_delta' = IF "namespace_delta" \in u.keys
                          THEN u.namespace_delta ELSE namespace_delta
    /\ retry_count' = IF "_retry_count" \in u.keys THEN u.retry_count ELSE retry_count

\* the record of a node invocation: what it read and what it returned
Invocation(node, call, raised, u, content, decision) ==
    [node |-> node, call |-> call, raised |-> raised, update |-> u,
     content |-> content, decision |-> decision,
     in_error |-> error, in_count |-> retry_count]

NoContent == truncate(payload_raw(NonDictValue(0)))

NoCall == [id |-> None, outcome |-> Returns(NonDictValue(0))]

NoTrim ==
    [phase |-> "input", keep_rounds |-> 0, keep_first_n_human |-> 0,
     input |-> <<>>, first |-> {}, second |-> {},
     summarized |-> [summary |-> FALSE, remove |-> {}]]

DefaultConfig == [keys |-> {}, keep_rounds |-> 0, keep_first_n_human |-> 0]

\* make_initial_state (graph_state.py lines 56-70)
InitialState ==
    /\ messages = <<>>
    /\ research_log = <<>>
    /\ artifacts = <<>>
    /\ provenance = 0
    /\ status = "ok"
    /\ error = NoError
    /\ namespace_delta = NoDelta
    /\ retry_count = 0

(***************************************************************************)
(* Spec: the orchestrator loop.  A user turn opens a task; each iteration  *)
(* runs configure_node, asks the model for a directive, executes every     *)
(* call of the directive through execute_skill, then classify_error,       *)
(* decide_retry, store_artifacts and audit_namespace.                      *)
(***************************************************************************)
\* lengths of texts that come from outside: short ones and ones above a budget
TextChars == {20, 12000}
UserChars == {20, 41000}

ErrorEnvelopes ==
    {Envelope("error", "dict", 20, e, <<LogEntry("skill", "failed", FALSE)>>) :
        e \in {ErrorObject("NETWORK_ERROR", "true", "retry_with_plan_correction", 40),
               ErrorObject("DATA_NOT_FOUND", "false", "human_review", 40),
               ErrorObject("INVALID_ARGS", "absent", "absent", 40),
               ErrorObject("absent", "true", "absent", 40),
               EmptyError}}

OkEnvelopes ==
    {Envelope("ok", "dict", c, NoError, <<>>) : c \in TextChars}
    \cup {[Envelope("ok", "dict", 20, NoError, <<LogEntry("skill", "done", FALSE)>>)
              EXCEPT !.namespace_delta =
                        [tag |-> "obj",
                         new_artifacts |-> <<Claimed("str", TRUE), Claimed("dict", FALSE)>>],
                     !.provenance = 1]}
    \cup {Envelope("absent", "absent", 0, NoError, <<>>)}

MalformedValues ==
    {NonDictValue(20),
     [Envelope("ok", "absent", 0, NoError, <<>>) EXCEPT !.outputs = "absent"],
     [Envelope("ok", "absent", 0, NoError, <<>>) EXCEPT !.outputs = "nondict"],
     [Envelope("ok", "nondict", 0, NoError, <<>>) EXCEPT !.summary = "nondict"],
     [Envelope("ok", "dict", 20, NoError, <<>>) EXCEPT !.full_log = "nondict"]}

Exceptions == {"MemoryError", "TimeoutError", "Exception"}
TerminationSignals == {"KeyboardInterrupt", "SystemExit"}

Outcomes ==
    {Returns(v) : v \in OkEnvelopes \cup ErrorEnvelopes \cup MalformedValues}
    \cup {Raises(x, c) : x \in Exceptions \cup TerminationSignals, c \in TextChars}

Init ==
    /\ InitialState
    /\ pc = "user"
    /\ pending = <<>>
    /\ config \in {DefaultConfig}
           \cup {[keys |-> {"keep_rounds"}, keep_rounds |-> k,
                  keep_first_n_human |-> 0] : k \in 0..MaxKeep}
           \cup {[keys |-> {"keep_rounds", "keep_first_n_human"}, keep_rounds |-> 1,
                  keep_first_n_human |-> 0]}
    /\ nextId = 1
    /\ nextCall = 1
    /\ last = Invocation("none", NoCall, "none", NoUpdate, NoContent, "none")
    /\ trim = NoTrim
    /\ NoRouting

\* the user states a task (or a follow-up)
UserTurn(chars) ==
    /\ pc = "user"
    /\ nextId <= MaxMsgs
    /\ last' = Invocation("user", NoCall, "none",
                          [NoUpdate EXCEPT !.keys = {"messages"},
                              !.messages = [append |-> <<HumanMessage(None, chars)>>,
                                            remove |-> {}]],
                          NoContent, "none")
    /\ Merge(last'.update)
    /\ pc' = "configure"
    /\ UNCHANGED <<pending, config, nextCall, trim,
                   registry, router,
                   soft, lock, threads, completed, global_registry>>

ConfigureNode ==
    /\ pc = "configure"
    /\ last' = Invocation("configure_node", NoCall, "none",
                          configure_node(messages, config), NoContent, "none")
    /\ Merge(last'.update)
    /\ pc' = "llm"
    /\ UNCHANGED <<pending, config, nextCall, trim,
                   registry, router,
                   soft, lock, threads, completed, global_registry>>

\* the reasoning model answers with a directive of n calls
LLMDirective(n) ==
    /\ pc = "llm"
    /\ nextId + n <= MaxMsgs
    /\ LET calls == nextCall..(nextCall + n - 1)
       IN  /\ last' = Invocation("llm", NoCall, "none",
                                 [NoUpdate EXCEPT !.keys = {"messages"},
                                     !.messages = [append |-> <<AIMessage(None, calls, 0)>>,
                                                   remove |-> {}]],
                                 NoContent, "none")
           /\ pending' = [i \in 1..n |-> nextCall + i - 1]
    /\ Merge(last'.update)
    /\ nextCall' = nextCall + n
    /\ pc' = "execute"
    /\ UNCHANGED <<config, trim,
                   registry, router,
                   soft, lock, threads, completed, global_registry>>

\* the reasoning model answers in plain text, without calls
LLMAnswer ==
    /\ pc = "llm"
    /\ nextId <= MaxMsgs
    /\ last' = Invocation("llm", NoCall, "none",
                          [NoUpdate EXCEPT !.keys = {"messages"},
                              !.messages = [append |-> <<AIMessage(None, {}, 20)>>,
                                            remove |-> {}]],
                          NoContent, "none")
    /\ Merge(last'.update)
    /\ pc' = "user"
    /\ UNCHANGED <<pending, config, nextCall, trim,
                   registry, router,
                   soft, lock, threads, completed, global_registry>>

\* execute_skill for the next call of the directive; an exception that leaves
\* execute_skill ends the loop
ExecuteSkill(outcome) ==
    /\ pc = "execute"
    /\ pending # <<>>
    /\ LET r == execute_skill(Head(pending), outcome)
       IN  /\ last' = Invocation("execute_skill", [id |-> Head(pending), outcome |-> outcome],
                                 r.raised, r.update, r.content, "none")
           /\ Merge(r.update)
           /\ pc' = IF r.raised # "none" THEN "raised"
                    ELSE IF Tail(pending) = <<>> THEN "classify" ELSE "execute"
           /\ pending' = IF r.raised # "none" THEN pending ELSE Tail(pending)
    /\ UNCHANGED <<config, nextCall, trim,
                   registry, router,
                   soft, lock, threads, completed, global_registry>>

ClassifyError ==
    /\ pc = "classify"
    /\ last' = Invocation("classify_error", NoCall, "none", classify_error(error),
                          NoContent, "none")
    /\ Merge(last'.update)
    /\ pc' = "decide"
    /\ UNCHANGED <<pending, config, nextCall, trim,
                   registry, router,
                   soft, lock, threads, completed, global_registry>>

DecideRetry ==
    /\ pc = "decide"
    /\ retry_count < MaxCounter
    /\ last' = Invocation("decide_retry", NoCall, "none",
                          decide_retry(error, retry_count), NoContent,
                          Decision(error, retry_count))
    /\ Merge(last'.update)
    /\ pc' = "store"
    /\ UNCHANGED <<pending, config, nextCall, trim,
                   registry, router,
                   soft, lock, threads, completed, global_registry>>

StoreArtifacts ==
    /\ pc = "store"
    /\ last' = Invocation("store_artifacts", NoCall, "none",
                          store_artifacts(namespace_delta), NoContent, "none")
    /\ Merge(last'.update)
    /\ pc' = "audit"
    /\ UNCHANGED <<pending, config, nextCall, trim,
                   registry, router,
                   soft, lock, threads, completed, global_registry>>

AuditNamespace(namespace) ==
    /\ pc = "audit"
    /\ last' = Invocation("audit_namespace", NoCall, "none",
                          audit_namespace(namespace), NoContent, "none")
    /\ Merge(last'.update)
    /\ pc' = "configure"
    /\ UNCHANGED <<pending, config, nextCall, trim,
                   registry, router,
                   soft, lock, threads, completed, global_registry>>

Next ==
    \/ \E c \in UserChars : UserTurn(c)
    \/ ConfigureNode
    \/ \E n \in 1..MaxCalls : LLMDirective(n)
    \/ LLMAnswer
    \/ \E o \in Outcomes : ExecuteSkill(o)
    \/ ClassifyError
    \/ DecideRetry
    \/ StoreArtifacts
    \/ \E ns \in {"empty", "clean", "violations"} : AuditNamespace(ns)

Spec == Init /\ [][Next]_vars

(***************************************************************************)
(* SpecTrim: build_remove_messages as a function of its inputs.  The       *)
(* history is any sequence of at most MaxLen turns: user turns, directive  *)
(* turns with 0..MaxCalls fresh calls, and tool-result turns answering any *)
(* call issued so far or no call at all; at most MaxNoId turns carry no    *)
(* identifier.  TrimTwice runs the trimmer, applies its deletion set       *)
(* through the messages reducer and runs the trimmer again.                *)
(***************************************************************************)
InitTrim ==
    /\ InitialState
    /\ pc = "trim"
    /\ pending = <<>>
    /\ config = DefaultConfig
    /\ nextId = 1
    /\ nextCall = 1
    /\ last = Invocation("none", NoCall, "none", NoUpdate, NoContent, "none")
    /\ trim = NoTrim
    /\ NoRouting

IdChoices ==
    {nextId} \cup
    (IF Cardinality({i \in 1..Len(messages) : messages[i].id = None}) < MaxNoId
     THEN {None} ELSE {})

TrimAppend(turn, calls) ==
    /\ pc = "trim"
    /\ trim.phase = "input"
    /\ Len(messages) < MaxLen
    /\ messages' = Append(messages, turn)
    /\ nextId' = nextId + 1
    /\ nextCall' = nextCall + calls
    /\ UNCHANGED <<research_log, artifacts, provenance, status, error,
                   namespace_delta, retry_count, pc, pending, config, last, trim,
                   registry, router,
                   soft, lock, threads, completed, global_registry>>

TrimAppendHuman == \E id \in IdChoices : TrimAppend(HumanMessage(id, 0), 0)

TrimAppendAI ==
    \E id \in IdChoices, n \in 0..MaxCalls :
        TrimAppend(AIMessage(id, nextCall..(nextCall + n - 1), 0), n)

\* the call identifier None answers no call of any directive
TrimAppendTool ==
    \E id \in IdChoices, c \in 0..(nextCall - 1) : TrimAppend(ToolMessage(id, c, 0), 0)

TrimTwice(keep_rounds, keep_first_n_human) ==
    /\ pc = "trim"
    /\ trim.phase = "input"
    /\ LET first  == build_remove_messages(messages, keep_rounds, keep_first_n_human)
           after  == add_messages(messages, [append |-> <<>>, remove |-> first], nextId)
           second == build_remove_messages(after, keep_rounds, keep_first_n_human)
       IN  /\ messages' = after
           /\ trim' = [phase |-> "done", keep_rounds |-> keep_rounds,
                       keep_first_n_human |-> keep_first_n_human,
                       input |-> messages, first |-> first, second |-> second,
                       summarized |-> summarize_and_trim(messages, keep_rounds)]
    /\ UNCHANGED <<research_log, artifacts, provenance, status, error,
                   namespace_delta, retry_count, pc, pending, config, nextId,
                   nextCall, last,
                   registry, router,
                   soft, lock, threads, completed, global_registry>>

NextTrim ==
    \/ TrimAppendHuman
    \/ TrimAppendAI
    \/ TrimAppendTool
    \/ \E k \in 0..MaxKeep, n \in 0..1 : TrimTwice(k, n)

SpecTrim == InitTrim /\ [][NextTrim]_vars

(***************************************************************************)
(* SpecRetry: a sequence of decide_retry invocations, each update merged   *)
(* into the state, starting from a counter of zero.  Between decisions the *)
(* error field (last write wins) is rewritten by the outcome of the next   *)
(* capability call.  The loop runs decide_retry after every call, hence    *)
(* the weak fairness of RetryDecide.                                       *)
(***************************************************************************)
InitRetry ==
    /\ InitialState
    /\ pc = "retry"
    /\ pending = <<>>
    /\ config = DefaultConfig
    /\ nextId = 1
    /\ nextCall = 1
    /\ last = Invocation("none", NoCall, "none", NoUpdate, NoContent, "none")
    /\ trim = NoTrim
    /\ NoRouting

RetryOutcome(e) ==
    /\ pc = "retry"
    /\ error # e
    /\ error' = e
    /\ UNCHANGED <<messages, research_log, artifacts, provenance, status,
                   namespace_delta, retry_count, pc, pending, config, nextId,
                   nextCall, last, trim,
                   registry, router,
                   soft, lock, threads, completed, global_registry>>

RetryDecide ==
    /\ pc = "retry"
    /\ retry_count < MaxCounter
    /\ Len(research_log) < MaxLog
    /\ last' = Invocation("decide_retry", NoCall, "none",
                          decide_retry(error, retry_count), NoContent,
                          Decision(error, retry_count))
    /\ Merge(last'.update)
    /\ UNCHANGED <<pc, pending, config, nextCall, trim,
                   registry, router,
                   soft, lock, threads, completed, global_registry>>

NextRetry ==
    \/ \E e \in {NoError}
                \cup {ErrorObject(c, r, "absent", 40) :
                         c \in {"EXECUTION_OOM", "EXECUTION_CRASH", "absent"},
                         r \in {"true", "false", "absent"}} : RetryOutcome(e)
    \/ RetryDecide

SpecRetry == InitRetry /\ [][NextRetry]_vars /\ WF_vars(RetryDecide)

(***************************************************************************)
(* SpecFormat: format_skill_output_to_string as a function of its input.   *)
(* The input is a value that is not a map, an Envelope with or without an  *)
(* LLM-facing summary, or a map that is no Envelope; the lengths are short *)
(* ones, long ones, and every length from just below the budget to         *)
(* MaxDelta above it.  FormatAgain repeats the call on the same input.     *)
(***************************************************************************)
FormatSizes ==
    {0, 20, 12000}
    \cup ((MAX_CONTENT_CHARS - 20 - MaxDelta)..(MAX_CONTENT_CHARS + MaxDelta))

FormatInputs ==
    {NonDictValue(c) : c \in FormatSizes}
    \cup {Envelope("ok", "dict", c, NoError, <<>>) : c \in FormatSizes}
    \cup {Envelope("error", "dict", c,
                    ErrorObject("NETWORK_ERROR", "true", "retry_with_plan_correction", 40),
                    <<LogEntry("skill", "failed", FALSE)>>) : c \in FormatSizes}
    \cup {[Envelope("ok", "absent", 0, NoError, <<>>) EXCEPT !.raw_chars = c] :
              c \in FormatSizes}
    \cup {make_crash_envelope(code, c, 300 + c, code # "EXECUTION_CRASH") :
              code \in {"EXECUTION_OOM", "EXECUTION_TIMEOUT", "EXECUTION_CRASH"},
              c \in TextChars}
    \cup MalformedValues

InitFormat ==
    /\ InitialState
    /\ pc = "format"
    /\ pending = <<>>
    /\ config = DefaultConfig
    /\ nextId = 1
    /\ nextCall = 1
    /\ last = Invocation("none", NoCall, "none", NoUpdate, NoContent, "none")
    /\ trim = NoTrim
    /\ NoRouting

FormatOutput(value) ==
    /\ pc = "format"
    /\ LET fmt == format_skill_output_to_string(value)
       IN  last' = Invocation("format_skill_output_to_string",
                              [id |-> None, outcome |-> Returns(value)],
                              fmt.raised, NoUpdate, fmt.content, "first")
    /\ UNCHANGED <<messages, research_log, artifacts, provenance, status, error,
                   namespace_delta, retry_count, pc, pending, config, nextId,
                   nextCall, trim,
                   registry, router,
                   soft, lock, threads, completed, global_registry>>

\* the same input is formatted once more and the two results are compared
FormatAgain ==
    /\ pc = "format"
    /\ last.node = "format_skill_output_to_string"
    /\ last.decision = "first"
    /\ LET fmt == format_skill_output_to_string(last.call.outcome.value)
       IN  last' = [last EXCEPT !.decision =
                        IF fmt.raised = last.raised /\ fmt.content = last.content
                        THEN "same" ELSE "differs"]
    /\ UNCHANGED <<messages, research_log, artifacts, provenance, status, error,
                   namespace_delta, retry_count, pc, pending, config, nextId,
                   nextCall, trim,
                   registry, router,
                   soft, lock, threads, completed, global_registry>>

\* execute_skill on a runner that returns the value: the content is
\* formatted, the audit entry written and the update merged
FormatExecute(value) ==
    /\ pc = "format"
    /\ last.node = "none"
    /\ LET r == execute_skill(nextCall, Returns(value))
       IN  /\ last' = Invocation("execute_skill",
                                 [id |-> nextCall, outcome |-> Returns(value)],
                                 r.raised, r.update, r.content, "none")
           /\ Merge(r.update)
    /\ pc' = "executed"
    /\ UNCHANGED <<pending, config, nextCall, trim, registry, router,
                   soft, lock, threads, completed, global_registry>>

NextFormat ==
    \/ \E v \in FormatInputs : FormatOutput(v)
    \/ FormatAgain
    \/ \E v \in FormatInputs : FormatExecute(v)

SpecFormat == InitFormat /\ [][NextFormat]_vars

(***************************************************************************)
(* SpecClassify: classify_error on an error object of any code of the      *)
(* taxonomy, of a code outside it, or without code, with the retryable     *)
(* flag set or not; the enriched error is merged into the state and        *)
(* classified once more.                                                   *)
(***************************************************************************)
TaxonomyCodes ==
    {"EXECUTION_CRASH", "EXECUTION_OOM", "EXECUTION_TIMEOUT", "TOOL_NOT_FOUND",
     "INVALID_ARGS", "PERMISSION_DENIED", "NETWORK_ERROR", "DATA_NOT_FOUND",
     "SCHEMA_VIOLATION", "UNKNOWN"}

ClassifyInputs ==
    {NoError, EmptyError}
    \cup {ErrorObject(c, r, f, 40) :
             c \in TaxonomyCodes \cup {"absent", "NOT_LISTED"},
             r \in {"true", "false", "absent"},
             f \in {"absent", "human_review"}}

InitClassify ==
    /\ InitialState
    /\ pc = "classify_input"
    /\ pending = <<>>
    /\ config = DefaultConfig
    /\ nextId = 1
    /\ nextCall = 1
    /\ last = Invocation("none", NoCall, "none", NoUpdate, NoContent, "none")
    /\ trim = NoTrim
    /\ NoRouting

\* a capability call left this error in the state
ClassifyInput(e) ==
    /\ pc = "classify_input"
    /\ error' = e
    /\ pc' = "classify"
    /\ UNCHANGED <<messages, research_log, artifacts, provenance, status,
                   namespace_delta, retry_count, pending, config, nextId,
                   nextCall, last, trim,
                   registry, router,
                   soft, lock, threads, completed, global_registry>>

\* classify_error, first on the error as it came and then on its own result
Classify ==
    /\ pc \in {"classify", "reclassify"}
    /\ last' = Invocation("classify_error", NoCall, "none", classify_error(error),
                          NoContent, IF pc = "classify" THEN "first" ELSE "second")
    /\ Merge(last'.update)
    /\ pc' = IF pc = "classify" THEN "reclassify" ELSE "classified"
    /\ UNCHANGED <<pending, config, nextCall, trim,
                   registry, router,
                   soft, lock, threads, completed, global_registry>>

NextClassify ==
    \/ \E e \in ClassifyInputs : ClassifyInput(e)
    \/ Classify

SpecClassify == InitClassify /\ [][NextClassify]_vars

(***************************************************************************)
(* SpecRouter: one Router call against a directory that other threads      *)
(* change meanwhile.  The directory starts with the first n names          *)
(* registered and enabled; the call asks for one of RequestNames, and the  *)
(* other threads register, unregister, enable and disable these names.     *)
(* Each step of the Router is one operation of the directory (one holding  *)
(* of its lock) with the code that follows it.                             *)
(***************************************************************************)
RequestNames == {1, MaxSkills + 1}

RunnerOutcomes ==
    {Returns(v) : v \in {NonDictValue(20),
                         [Envelope("ok", "absent", 0, NoError, <<>>)
                             EXCEPT !.outputs = "absent"],
                         [Envelope("ok", "absent", 0, NoError, <<>>)
                             EXCEPT !.outputs = "nondict"],
                         Envelope("ok", "dict", 20, NoError, <<>>),
                         Envelope("error", "dict", 20,
                                  ErrorObject("DATA_NOT_FOUND", "false", "human_review", 40),
                                  <<>>)}}
    \cup {Raises(x, 20) : x \in Exceptions}

InitRouter ==
    /\ InitialState
    /\ pc = "router"
    /\ pending = <<>>
    /\ config = DefaultConfig
    /\ nextId = 1
    /\ nextCall = 1
    /\ last = Invocation("none", NoCall, "none", NoUpdate, NoContent, "none")
    /\ trim = NoTrim
    /\ \E n \in 0..MaxSkills : registry = [i \in 1..n |-> SkillMeta(i, "run", TRUE)]
    /\ router = IdleRouter
    /\ soft = [name \in RequestNames |-> NoWindow]
    /\ lock = None
    /\ threads = <<>>
    /\ completed = NoCompleted
    /\ global_registry = NoGlobal

RouterFrame ==
    UNCHANGED <<messages, research_log, artifacts, provenance, status, error,
                namespace_delta, retry_count, pc, pending, config, nextId,
                nextCall, last, trim, lock, threads, completed, global_registry>>

\* what the other threads do to the directory, until the Guard around the
\* Router call has ended; a call in progress notes
\* whether the name it asked for got registered meanwhile
RegistryChange(reg, op, name) ==
    /\ pc = "router"
    /\ last.node = "none"
    /\ registry' = reg
    /\ soft' = [soft EXCEPT ![name] = WindowAfter(@, op, Contains(registry, name),
                                                  get(registry, name).runner)]
    /\ <<registry', soft'>> # <<registry, soft>>
    /\ router' =
           IF router.pc \in {"idle", "returned"} THEN router
           ELSE [router EXCEPT
                    !.absent_throughout = @ /\ ~Contains(reg, router.skill_name),
                    !.disabled_throughout = @ /\ Disabled(soft'[router.skill_name]),
                    !.kept_throughout = @ /\ DisabledAndKept(soft'[router.skill_name]),
                    !.toggled_only = @ /\ op \in {"enable", "disable"}]
    /\ RouterFrame

Register(name, runner, enabled) ==
    RegistryChange(register(registry, SkillMeta(name, runner, enabled)),
                   "register", name)

Unregister(name) == RegistryChange(unregister(registry, name), "unregister", name)

Enable(name) == RegistryChange(enable(registry, name), "enable", name)

Disable(name) == RegistryChange(disable(registry, name), "disable", name)

\* SkillRouter.__call__, line 45: runner = self.registry.get_runner(skill_name)
RouterCall(skill_name) ==
    /\ pc = "router"
    /\ router.pc = "idle"
    /\ LET runner == get_runner(registry, skill_name)
       IN  router' = [router EXCEPT
                         !.pc = IF runner = NoRunner THEN "miss" ELSE "invoke",
                         !.skill_name = skill_name,
                         !.runner = runner,
                         !.absent_at_call = ~Contains(registry, skill_name),
                         !.absent_throughout = ~Contains(registry, skill_name),
                         !.disabled_throughout = Disabled(soft[skill_name]),
                         !.kept_throughout = DisabledAndKept(soft[skill_name]),
                         !.toggled_only = /\ Contains(registry, skill_name)
                                          /\ get(registry, skill_name).runner # NoRunner]
    /\ UNCHANGED <<registry, soft>>
    /\ RouterFrame

\* lines 47-51: skill = self.registry.get(skill_name), the disabled case
RouterLookup ==
    /\ pc = "router"
    /\ router.pc = "miss"
    /\ LET skill == get(registry, router.skill_name)
       IN  router' = IF skill # NoSkill /\ ~skill.enabled
                     THEN [router EXCEPT !.pc = "returned",
                                         !.result = make_disabled_envelope]
                     ELSE [router EXCEPT !.pc = "listing"]
    /\ UNCHANGED <<registry, soft>>
    /\ RouterFrame

\* line 52: return _make_not_found_envelope(skill_name, self.registry)
RouterNotFound ==
    /\ pc = "router"
    /\ router.pc = "listing"
    /\ LET available == AvailableNames(registry)
       IN  router' = [router EXCEPT
                         !.pc = "returned",
                         !.available = available,
                         !.result = make_not_found_envelope(available),
                         !.enabled_at_listing =
                             {registry[i].name : i \in {j \in 1..Len(registry) :
                                                           registry[j].enabled}}]
    /\ UNCHANGED <<registry, soft>>
    /\ RouterFrame

\* lines 56-62: result = runner(skill_args), then the check of its shape; a
\* failure raised by the executable leaves the Router
RouterInvoke(outcome) ==
    /\ pc = "router"
    /\ router.pc = "invoke"
    /\ router' = [router EXCEPT
                      !.pc = "returned",
                      !.invoked = @ + 1,
                      !.outcome = outcome,
                      !.raised = InvokeRunner(outcome).raised,
                      !.result = InvokeRunner(outcome).result]
    /\ UNCHANGED <<registry, soft>>
    /\ RouterFrame

\* what the caller of the Router gets: the value it returned or the failure
\* that left it
\* execute_node.py line 58 with the Router as skill_runner: the Guard around
\* the Router call that has just ended
GuardRouter ==
    /\ pc = "router"
    /\ router.pc = "returned"
    /\ last.node = "none"
    /\ LET outcome == IF router.raised # "none"
                      THEN Raises(router.raised, router.outcome.msg_chars)
                      ELSE Returns(router.result)
           r       == execute_skill(nextCall, outcome)
       IN  /\ last' = Invocation("execute_skill",
                                 [id |-> nextCall, outcome |-> outcome],
                                 r.raised, r.update, r.content, "router")
           /\ Merge(r.update)
    /\ UNCHANGED <<pc, pending, config, nextCall, trim, registry, router,
                   soft, lock, threads, completed, global_registry>>

NextRouter ==
    \/ \E name \in RequestNames, runner \in {NoRunner, "run"}, enabled \in BOOLEAN :
           Register(name, runner, enabled)
    \/ \E name \in RequestNames : Unregister(name)
    \/ \E name \in RequestNames : Enable(name)
    \/ \E name \in RequestNames : Disable(name)
    \/ \E name \in RequestNames : RouterCall(name)
    \/ RouterLookup
    \/ RouterNotFound
    \/ \E o \in RunnerOutcomes : RouterInvoke(o)
    \/ GuardRouter

SpecRouter == InitRouter /\ [][NextRouter]_vars

(***************************************************************************)
(* SpecStore: store_artifacts on the namespace delta of a capability       *)
(* result, for every list of at most MaxArtifacts claimed entries.         *)
(***************************************************************************)
ClaimedLists ==
    UNION {[1..n -> {Claimed(kind, exists) : kind \in {"str", "dict", "other"},
                                             exists \in BOOLEAN}] :
              n \in 0..MaxArtifacts}

InitStore ==
    /\ messages = <<>>
    /\ research_log = <<>>
    /\ artifacts = <<>>
    /\ provenance = 0
    /\ status = "ok"
    /\ error = NoError
    /\ namespace_delta \in {NoDelta}
                           \cup {[tag |-> "obj", new_artifacts |-> l] : l \in ClaimedLists}
    /\ retry_count = 0
    /\ pc = "store"
    /\ pending = <<>>
    /\ config = DefaultConfig
    /\ nextId = 1
    /\ nextCall = 1
    /\ last = Invocation("none", NoCall, "none", NoUpdate, NoContent, "none")
    /\ trim = NoTrim
    /\ NoRouting

NextStore == StoreArtifacts

SpecStore == InitStore /\ [][NextStore]_vars

(***************************************************************************)
(* SpecRegistry: threads calling the operations of one SkillRegistry.      *)
(* Every operation is "with self._lock:" around a body that reads the      *)
(* directory and then, for a write, changes it: a thread enters when the   *)
(* lock lets it (reading the directory), runs the body, leaves.            *)
(***************************************************************************)
Threads == 1..MaxThreads

RegistryNames == {1, 2}


RegistryOps ==
    {Op("register", name, runner, enabled) :
        name \in RegistryNames, runner \in {"run", "alt"}, enabled \in BOOLEAN}
    \cup {Op(kind, name, NoRunner, FALSE) :
             kind \in {"unregister", "enable", "disable", "get", "get_runner",
                       "search", "contains"},
             name \in RegistryNames}
    \cup {Op("list_all", None, NoRunner, enabled_only) : enabled_only \in BOOLEAN}
    \cup {Op("stats", None, NoRunner, FALSE), Op("len", None, NoRunner, FALSE)}

\* the directory an operation leaves, run alone on the directory reg
Contents(op, reg) ==
    CASE op.kind = "register" ->
            register(reg, SkillMeta(op.name, op.runner, op.enabled))
      [] op.kind = "unregister" -> unregister(reg, op.name)
      [] op.kind = "enable" -> enable(reg, op.name)
      [] op.kind = "disable" -> disable(reg, op.name)
      [] OTHER -> reg

\* search (lines 124-144), the query a name: the enabled entries it matches
search(reg, query) == SelectSeq(reg, LAMBDA sk : sk.enabled /\ sk.name = query)

\* stats (lines 163-172)
stats(reg) ==
    [total |-> Len(reg),
     enabled |-> Len(SelectSeq(reg, LAMBDA sk : sk.enabled)),
     disabled |-> Len(SelectSeq(reg, LAMBDA sk : ~sk.enabled))]

\* the value an operation returns, run alone on the directory reg
Returned(op, reg) ==
    CASE op.kind = "register" -> None
      [] op.kind \in {"unregister", "enable", "disable", "contains"} ->
            Contains(reg, op.name)
      [] op.kind = "get" -> get(reg, op.name)
      [] op.kind = "get_runner" -> get_runner(reg, op.name)
      [] op.kind = "search" -> search(reg, op.name)
      [] op.kind = "list_all" -> list_all(reg, op.enabled)
      [] op.kind = "stats" -> stats(reg)
      [] OTHER -> Len(reg)

\* a plausible slip: an operation whose body is not under the lock
CanAcquire_Unlocked(owner, t) == TRUE

\* with self._lock: the lock is free, or held by the thread itself (RLock)
CanAcquire(owner, t) == owner = None \/ owner = t

InitRegistry ==
    /\ InitialState
    /\ pc = "registry"
    /\ pending = <<>>
    /\ config = DefaultConfig
    /\ nextId = 1
    /\ nextCall = 1
    /\ last = Invocation("none", NoCall, "none", NoUpdate, NoContent, "none")
    /\ trim = NoTrim
    /\ registry = <<>>
    /\ router = IdleRouter
    /\ soft = <<>>
    /\ lock = None
    /\ threads = [t \in Threads |-> IdleThread]
    /\ completed = NoCompleted
    /\ global_registry = NoGlobal

RegistryFrame ==
    UNCHANGED <<messages, research_log, artifacts, provenance, status, error,
                namespace_delta, retry_count, pc, pending, config, nextId,
                nextCall, last, trim, router, soft, global_registry>>

\* the thread enters the operation: it takes the lock and reads the directory
Acquire(t, op) ==
    /\ pc = "registry"
    /\ threads[t].pc = "idle"
    /\ CanAcquire(lock, t)
    /\ lock' = t
    /\ threads' = [threads EXCEPT ![t] = [pc |-> "inside", op |-> op,
                                          seen |-> registry, result |-> None]]
    /\ UNCHANGED <<registry, completed>>
    /\ RegistryFrame

\* the body: the value to return follows from what the thread read, a write
\* changes the directory as it is now
Body(t) ==
    /\ pc = "registry"
    /\ threads[t].pc = "inside"
    /\ registry' = Contents(threads[t].op, registry)
    /\ threads' = [threads EXCEPT ![t].pc = "leaving",
                                  ![t].result = Returned(threads[t].op, threads[t].seen)]
    /\ UNCHANGED <<lock, completed>>
    /\ RegistryFrame

\* the end of the with block: the lock is released and the value returned
Release(t) ==
    /\ pc = "registry"
    /\ threads[t].pc = "leaving"
    /\ lock' = None
    /\ completed' = [thread |-> t, op |-> threads[t].op, before |-> threads[t].seen,
                     after |-> registry, result |-> threads[t].result]
    /\ threads' = [threads EXCEPT ![t] = IdleThread]
    /\ UNCHANGED registry
    /\ RegistryFrame

NextRegistry ==
    \/ \E t \in Threads, op \in RegistryOps : Acquire(t, op)
    \/ \E t \in Threads : Body(t)
    \/ \E t \in Threads : Release(t)

SpecRegistry == InitRegistry /\ [][NextRegistry]_vars

(***************************************************************************)
(* SpecGlobal: threads calling get_global_registry (lines 195-200), which  *)
(* holds no lock: the test of _global_registry, the creation with the      *)
(* assignment, and the return are separate steps.  A thread then registers *)
(* capabilities through the instance it obtained.  instances[i] is the     *)
(* directory of the i-th SkillRegistry created.                            *)
(***************************************************************************)

InitGlobal ==
    /\ InitialState
    /\ pc = "global"
    /\ pending = <<>>
    /\ config = DefaultConfig
    /\ nextId = 1
    /\ nextCall = 1
    /\ last = Invocation("none", NoCall, "none", NoUpdate, NoContent, "none")
    /\ trim = NoTrim
    /\ registry = <<>>
    /\ router = IdleRouter
    /\ soft = <<>>
    /\ lock = None
    /\ threads = [t \in Threads |-> [pc |-> "idle", obtained |-> None]]
    /\ completed = NoCompleted
    /\ global_registry = NoGlobal

GlobalFrame ==
    UNCHANGED <<messages, research_log, artifacts, provenance, status, error,
                namespace_delta, retry_count, pc, pending, config, nextId,
                nextCall, last, trim, registry, router, soft, lock, completed>>

\* line 198: if _global_registry is None
TestGlobal(t) ==
    /\ pc = "global"
    /\ threads[t].pc = "idle"
    /\ threads' = [threads EXCEPT ![t].pc =
                       IF global_registry.current = None THEN "create" ELSE "return"]
    /\ UNCHANGED global_registry
    /\ GlobalFrame

\* line 199: _global_registry = SkillRegistry()
CreateGlobal(t) ==
    /\ pc = "global"
    /\ threads[t].pc = "create"
    /\ global_registry' = [current |-> Len(global_registry.instances) + 1,
                           instances |-> Append(global_registry.instances, <<>>)]
    /\ threads' = [threads EXCEPT ![t].pc = "return"]
    /\ GlobalFrame

\* line 200: return _global_registry
ReturnGlobal(t) ==
    /\ pc = "global"
    /\ threads[t].pc = "return"
    /\ threads' = [threads EXCEPT ![t].pc = "got",
                                  ![t].obtained = global_registry.current]
    /\ UNCHANGED global_registry
    /\ GlobalFrame

\* the caller registers a capability through the instance it obtained
RegisterThrough(t, name) ==
    /\ pc = "global"
    /\ threads[t].pc = "got"
    /\ ~Contains(global_registry.instances[threads[t].obtained], name)
    /\ global_registry' =
           [global_registry EXCEPT !.instances[threads[t].obtained] =
               register(@, SkillMeta(name, "run", TRUE))]
    /\ UNCHANGED threads
    /\ GlobalFrame

\* the caller asks for the instance once more
CallAgain(t) ==
    /\ pc = "global"
    /\ threads[t].pc = "got"
    /\ threads' = [threads EXCEPT ![t].pc = "idle"]
    /\ UNCHANGED global_registry
    /\ GlobalFrame

NextGlobal ==
    \/ \E t \in Threads : TestGlobal(t)
    \/ \E t \in Threads : CreateGlobal(t)
    \/ \E t \in Threads : ReturnGlobal(t)
    \/ \E t \in Threads, name \in RegistryNames : RegisterThrough(t, name)
    \/ \E t \in Threads : CallAgain(t)

SpecGlobal == InitGlobal /\ [][NextGlobal]_vars

(***************************************************************************)
(* Properties.                                                             *)
(***************************************************************************)
ExecutedBy(raises) ==
    last.node = "execute_skill" /\ last.call.outcome.raises \in raises

\* C1: execute_skill returns normally, never raising, whenever the
\* invocation function raises a failure other than a termination signal or
\* returns any value at all, well-formed Envelope or not.
C1_GuardNeverRaises ==
    ExecutedBy({"none"} \cup Exceptions) => last.raised = "none"

\* C2: for every invocation that raises a failure other than a termination
\* signal, the returned update has status "error", an error object with a
\* code, and a tool-result content of at most 10,000 characters.
C2_CrashIsBoundedError ==
    ExecutedBy(Exceptions) =>
        /\ last.raised = "none"
        /\ "status" \in last.update.keys /\ last.update.status = "error"
        /\ "error" \in last.update.keys
        /\ last.update.error.tag = "obj" /\ last.update.error.code # "absent"
        /\ Len(last.update.messages.append) = 1
        /\ last.update.messages.append[1].chars = ContentChars(last.content)
        /\ ContentChars(last.content) <= MAX_CONTENT_CHARS

\* a failure whose message alone is longer than the budget was cut to it
C2_Witness ==
    /\ ExecutedBy(Exceptions)
    /\ last.call.outcome.msg_chars > MAX_CONTENT_CHARS
    /\ last.content.notice
    /\ last.update.status = "error"

DirectivePositions(msgs) ==
    {i \in 1..Len(msgs) : msgs[i].type = "ai" /\ msgs[i].tool_calls # {}}

ResultsOf(msgs, call) ==
    {i \in 1..Len(msgs) : msgs[i].type = "tool" /\ msgs[i].tool_call_id = call}

LastDirective(msgs) ==
    CHOOSE i \in DirectivePositions(msgs) : \A j \in DirectivePositions(msgs) : j <= i

\* C3: every execute_skill call that returns yields exactly one tool-result
\* turn, answering the issued call; once every call of a directive has been
\* executed, each of its calls has exactly one tool-result turn in history.
C3_OneResultPerCall ==
    /\ (last.node = "execute_skill" /\ last.raised = "none") =>
           /\ "messages" \in last.update.keys
           /\ last.update.messages.remove = {}
           /\ Len(last.update.messages.append) = 1
           /\ last.update.messages.append[1].type = "tool"
           /\ last.update.messages.append[1].tool_call_id = last.call.id
    /\ pc \in {"classify", "decide", "store", "audit"} =>
           /\ DirectivePositions(messages) # {}
           /\ \A c \in messages[LastDirective(messages)].tool_calls :
                  Cardinality(ResultsOf(messages, c)) = 1

\* a directive of two calls is fully answered, the last call by a crash envelope
C3_Witness ==
    /\ pc = "classify"
    /\ ExecutedBy({"Exception"})
    /\ Cardinality(messages[LastDirective(messages)].tool_calls) = 2
    /\ \A c \in messages[LastDirective(messages)].tool_calls :
           Cardinality(ResultsOf(messages, c)) = 1

\* C4: the deletion set of build_remove_messages is round-atomic for any
\* history: it names a directive turn only together with every tool-result
\* turn answering one of its calls, and a tool-result turn only together with
\* the directive turn that issued its call (turns without identifier cannot
\* be named and are left aside).
C4_RoundAtomic ==
    trim.phase = "done" =>
        LET h == trim.input
        IN  \A d \in DirectivePositions(h) :
                \A c \in h[d].tool_calls : \A t \in ResultsOf(h, c) :
                    (h[d].id # None /\ h[t].id # None) =>
                        (h[d].id \in trim.first <=> h[t].id \in trim.first)

\* every turn has an identifier; the history is made of user turns and of
\* complete rounds: a directive followed at once by one result per call
HasIds(h) == \A i \in 1..Len(h) : h[i].id # None

CompleteRounds(h) ==
    /\ HasIds(h)
    /\ \A i \in 1..Len(h) : h[i].type = "ai" => h[i].tool_calls # {}
    /\ \A d \in DirectivePositions(h) :
          LET n == Cardinality(h[d].tool_calls)
          IN  /\ d + n <= Len(h)
              /\ \A c \in h[d].tool_calls :
                     \E t \in (d + 1)..(d + n) : t \in ResultsOf(h, c)
    /\ \A t \in 1..Len(h) : h[t].type = "tool" =>
          \E d \in DirectivePositions(h) :
              /\ d < t /\ t <= d + Cardinality(h[d].tool_calls)
              /\ h[t].tool_call_id \in h[d].tool_calls

\* identifiers of all turns of the oldest n rounds
OldestRounds(h, n) ==
    LET old == {d \in DirectivePositions(h) :
                   Cardinality({e \in DirectivePositions(h) : e <= d}) <= n}
    IN  {h[d].id : d \in old}
        \cup {h[t].id : t \in UNION {ResultsOf(h, c) : c \in UNION {h[d].tool_calls : d \in old}}}

\* C5: for a history of N complete rounds and user turns, every turn with an
\* identifier, and every keep_rounds >= 0: the deletion set is empty when
\* N <= keep_rounds, and otherwise exactly the turns of the oldest
\* N - keep_rounds rounds.
C5_ExactOldestRounds ==
    (trim.phase = "done" /\ CompleteRounds(trim.input)) =>
        LET n == Cardinality(DirectivePositions(trim.input))
        IN  trim.first = IF n <= trim.keep_rounds THEN {}
                         ELSE OldestRounds(trim.input, n - trim.keep_rounds)

C7_PairingIntact ==
    /\ \A t \in 1..Len(messages) : messages[t].type = "tool" =>
           \E d \in DirectivePositions(messages) :
               d < t /\ messages[t].tool_call_id \in messages[d].tool_calls
    /\ \A d \in DirectivePositions(messages) : \A c \in messages[d].tool_calls :
           Cardinality(ResultsOf(messages, c)) =
               IF \E i \in 1..Len(pending) : pending[i] = c THEN 0 ELSE 1

\* configure_node deleted a round and a complete round is still in history
C7_Witness ==
    /\ last.node = "configure_node"
    /\ last.update.messages.remove # {}
    /\ DirectivePositions(messages) # {}
    /\ Len(messages) >= 3

\* the rules of the claim, in order
RuleOutcome(e, count) ==
    CASE e.tag = "none"           -> [decision |-> "end", status |-> "ok"]
      [] e.retryable # "true"     -> [decision |-> "escalate", status |-> "error"]
      [] count >= 3               -> [decision |-> "escalate", status |-> "error"]
      [] OTHER                    -> [decision |-> "retry", status |-> "retrying"]

\* C8: decide_retry decides by these rules in order: no error gives end
\* (status ok); an error that is not retryable gives escalate (status error);
\* a retryable error at a counter >= 3 gives escalate (status error);
\* otherwise retry (status retrying).
C8_DecisionRules ==
    last.node = "decide_retry" =>
        /\ last.decision \in {"retry", "escalate", "end"}
        /\ last.decision = RuleOutcome(last.in_error, last.in_count).decision
        /\ "status" \in last.update.keys
        /\ last.update.status = RuleOutcome(last.in_error, last.in_count).status
        /\ status = last.update.status

\* a retryable error at the ceiling is escalated
C8_Witness ==
    /\ last.node = "decide_retry"
    /\ last.in_error.retryable = "true"
    /\ last.in_count >= 3
    /\ last.decision = "escalate"

\* C9: the counter changes only by a retry decision, to its value plus 1; an
\* escalate or end decision, and every other node, returns an update without
\* the counter.
C9_CounterFrame ==
    [][ /\ retry_count' # retry_count =>
              /\ last'.node = "decide_retry" /\ last'.decision = "retry"
              /\ retry_count' = retry_count + 1
        /\ (last'.node = "decide_retry" /\ last'.decision = "retry") =>
              /\ "_retry_count" \in last'.update.keys
              /\ retry_count' = retry_count + 1
        /\ (last'.node # "decide_retry" \/ last'.decision # "retry") =>
              "_retry_count" \notin last'.update.keys
      ]_vars

\* a retry decision advanced the counter, after execute_skill and
\* classify_error left it alone
C9_Witness ==
    /\ last.node = "decide_retry"
    /\ last.decision = "retry"
    /\ retry_count = last.in_count + 1
    /\ Len(messages) >= 2

RetryDecisions(log) ==
    Cardinality({i \in 1..Len(log) :
                    log[i].stage = "retry_decider" /\ log[i].detail = "retry"})

\* C10: from a counter of zero the counter never decreases and never exceeds
\* 3, at most 3 decisions are retry, at counter 3 every decision with an
\* error present is escalate, and an error that stays retryable is
\* eventually escalated (while the run's audit log has room).
C10_RetryBounded ==
    /\ [](retry_count <= MAX_RETRIES /\ RetryDecisions(research_log) <= MAX_RETRIES)
    /\ [][retry_count' >= retry_count]_vars
    /\ []((last.node = "decide_retry" /\ last.in_count >= MAX_RETRIES
           /\ last.in_error.tag # "none") => last.decision = "escalate")
    /\ []<>(\/ ~(error.tag # "none" /\ error.retryable = "true")
            \/ last.decision = "escalate"
            \/ Len(research_log) >= MaxLog)

\* three retries were granted and the fourth failure, still retryable, was escalated
C10_Witness ==
    /\ retry_count = MAX_RETRIES
    /\ RetryDecisions(research_log) = MAX_RETRIES
    /\ last.node = "decide_retry"
    /\ last.in_error.retryable = "true"
    /\ last.decision = "escalate"

\* the error the claim fixes for each failure class
FailureClassError(raises) ==
    CASE raises = "MemoryError"  ->
            [code |-> "EXECUTION_OOM", retryable |-> "true",
             fallback_action |-> "retry_with_plan_correction"]
      [] raises = "TimeoutError" ->
            [code |-> "EXECUTION_TIMEOUT", retryable |-> "true",
             fallback_action |-> "retry_with_plan_correction"]
      [] OTHER ->
            [code |-> "EXECUTION_CRASH", retryable |-> "false",
             fallback_action |-> "human_review"]

\* C11: the guard maps each failure class raised by the invocation function
\* to one fixed error: MemoryError gives EXECUTION_OOM / retryable /
\* retry_with_plan_correction, TimeoutError gives EXECUTION_TIMEOUT /
\* retryable / retry_with_plan_correction, any other failure that is not a
\* termination signal gives EXECUTION_CRASH / not retryable / human_review.
C11_FailureClassMapping ==
    ExecutedBy(Exceptions) =>
        LET want == FailureClassError(last.call.outcome.raises)
        IN  /\ "error" \in last.update.keys
            /\ last.update.error.code = want.code
            /\ last.update.error.retryable = want.retryable
            /\ last.update.error.fallback_action = want.fallback_action
            /\ error = last.update.error

\* a resource exhaustion was turned into the retryable EXECUTION_OOM error
C11_Witness ==
    /\ ExecutedBy({"MemoryError"})
    /\ last.raised = "none"
    /\ error.code = "EXECUTION_OOM"
    /\ error.fallback_action = "retry_with_plan_correction"

\* C12: a termination signal raised inside the invocation function leaves
\* execute_skill unchanged, and execute_skill then produces no update: no
\* tool-result turn, no error object, no audit entry.
C12_SignalPropagates ==
    ExecutedBy(TerminationSignals) =>
        /\ last.raised = last.call.outcome.raises
        /\ last.update.keys = {}
        /\ pc = "raised"
        /\ ResultsOf(messages, last.call.id) = {}
        /\ {"messages", "error", "research_log", "status"} \cap last.update.keys = {}

\* an interrupt during the second call of a directive left the loop with the
\* first call answered and the second one not
C12_Witness ==
    /\ ExecutedBy({"KeyboardInterrupt"})
    /\ last.raised = "KeyboardInterrupt"
    /\ Len(pending) = 1
    /\ Cardinality(messages[LastDirective(messages)].tool_calls) = 2
    /\ ResultsOf(messages, last.call.id) = {}

Formatted == last.node = "format_skill_output_to_string"

\* an Envelope as the formatter reads it: a map whose outputs is a map and
\* whose summary, when present, is a map
IsEnvelope(v) ==
    v.kind = "dict" /\ v.outputs = "dict" /\ v.summary \in {"dict", "absent"}

\* C13: for every Envelope, and for any input that is not a map,
\* format_skill_output_to_string returns a string of at most 10,000
\* characters.
C13_ContentWithinBudget ==
    (Formatted /\ (IsEnvelope(last.call.outcome.value)
                      \/ last.call.outcome.value.kind = "nondict")) =>
        /\ last.raised = "none"
        /\ ContentChars(last.content) <= 10000

\* a value that is not a map and renders to 12,000 characters came out at
\* the budget
C13_Witness ==
    /\ Formatted
    /\ last.call.outcome.value.kind = "nondict"
    /\ last.call.outcome.value.raw_chars = 12000
    /\ last.raised = "none"
    /\ ContentChars(last.content) = 10000

TrimAttempted(u) ==
    /\ "research_log" \in u.keys
    /\ u.research_log[1].detail \in {"trimmed", "nothing_to_delete"}

\* the trigger of the claim: the ceiling is exceeded, or there are more
\* assistant-directive turns than twice the configured keep_rounds
ConfiguredTrigger(msgs, cfg) ==
    \/ SumChars(msgs, 1) > DEFAULT_MAX_TOTAL_CHARS
    \/ CountType(msgs, "ai") > 2 * ConfigGet(cfg, "keep_rounds", 10)

\* C15: configure_node attempts trimming exactly when the total length of
\* the turns exceeds the ceiling or the number of assistant-directive turns
\* exceeds 2 x keep_rounds, keep_rounds being the configured value that is
\* passed to build_remove_messages.
C15_TriggerFollowsConfig ==
    /\ pc = "configure" =>
           (TrimAttempted(configure_node(messages, config))
               <=> ConfiguredTrigger(messages, config))
    /\ (last.node = "configure_node" /\ ~TrimAttempted(last.update)) =>
           ~ConfiguredTrigger(messages, config)

\* positions of the turns that belong to no round: user turns and assistant
\* turns without calls
OutsideRounds(h) ==
    {i \in 1..Len(h) : h[i].type = "human" \/ (h[i].type = "ai" /\ h[i].tool_calls = {})}

\* C16: for any history and configuration, the deletion set of
\* build_remove_messages names no user turn (protected or not) and no
\* assistant turn without calls.
C16_OnlyRoundTurns ==
    trim.phase = "done" =>
        /\ \A i \in OutsideRounds(trim.input) : trim.input[i].id \notin trim.first
        /\ \A i \in OutsideRounds(trim.input) :
               trim.input[i].id # None => \E j \in 1..Len(messages) : messages[j] = trim.input[i]

\* a round was deleted from a history that also holds a user turn and an
\* assistant turn without calls, both with identifier, and both are still there
C16_Witness ==
    /\ trim.phase = "done"
    /\ trim.keep_first_n_human = 0
    /\ trim.first # {}
    /\ \E i \in OutsideRounds(trim.input) :
           trim.input[i].type = "human" /\ trim.input[i].id # None
    /\ \E i \in OutsideRounds(trim.input) :
           trim.input[i].type = "ai" /\ trim.input[i].id # None
    /\ \A i \in OutsideRounds(trim.input) :
           \E j \in 1..Len(messages) : messages[j] = trim.input[i]

Classified == last.node = "classify_error" /\ Truthy(last.in_error)

\* C17: the enriched error has the category and severity of the taxonomy
\* entry of its code (UNKNOWN / high / not retryable when the code is missing
\* or not in the table), the retryable flag of the original error when it
\* sets one and the taxonomy default otherwise, and every other field of the
\* original error unchanged.
C17_Enrichment ==
    Classified =>
        LET orig  == last.in_error
            out   == last.update.error
            entry == IF orig.code \in TaxonomyCodes THEN ERROR_CATEGORIES(orig.code)
                     ELSE Classification("UNKNOWN", "high", "false")
        IN  /\ "error" \in last.update.keys
            /\ error = out
            /\ out.category = entry.category
            /\ out.severity = entry.severity
            /\ out.retryable = IF orig.retryable # "absent" THEN orig.retryable
                               ELSE entry.retryable
            /\ out.tag = orig.tag
            /\ out.code = orig.code
            /\ out.fallback_action = orig.fallback_action
            /\ out.chars = orig.chars

\* a crash error that its producer marked retryable keeps the flag against
\* the taxonomy default
C17_Witness ==
    /\ Classified
    /\ last.decision = "first"
    /\ last.in_error.code = "EXECUTION_CRASH"
    /\ last.in_error.retryable = "true"
    /\ error.retryable = "true"
    /\ error.category = "BUG"

\* C18: classifying an already-classified error again gives the same
\* retryable flag, category and severity as the first classification.
C18_ClassifyIdempotent ==
    (Classified /\ last.decision = "second") =>
        /\ last.update.error.retryable = last.in_error.retryable
        /\ last.update.error.category = last.in_error.category
        /\ last.update.error.severity = last.in_error.severity
        /\ last.update.error = last.in_error

\* an error without flag got the taxonomy default at the first classification
\* and kept it at the second
C18_Witness ==
    /\ Classified
    /\ last.decision = "second"
    /\ pc = "classified"
    /\ last.in_error.code = "NETWORK_ERROR"
    /\ last.in_error.category = "TRANSIENT"
    /\ error.retryable = "true"
    /\ error = last.in_error

\* the Router returned the not-found Envelope, having invoked no executable,
\* and the names of its hint are at most 10 capabilities that were registered
\* and enabled when they were listed
NotFoundReturned ==
    /\ router.raised = "none"
    /\ router.invoked = 0
    /\ router.result = make_not_found_envelope(router.available)
    /\ router.result.status = "error"
    /\ router.result.error.code = "TOOL_NOT_FOUND"
    /\ router.result.error.retryable = "false"
    /\ Len(router.available) <= 10
    /\ \A i \in 1..Len(router.available) :
           router.available[i] \in router.enabled_at_listing

\* C19 as stated: a Router call for a name that is not in the Registry when
\* the call is made invokes no executable and returns the not-found
\* Envelope, whose hint lists at most 10 names, each registered and enabled
\* at the time of the listing.
C19_NotFound ==
    (router.pc = "returned" /\ router.absent_at_call) => NotFoundReturned

\* C19: a Router call for a name that is not in the Registry for the whole
\* duration of the call invokes no executable and returns the not-found
\* Envelope (status error, TOOL_NOT_FOUND, not retryable), whose hint lists
\* at most 10 names, each registered and enabled at the time of the listing.
C19_NotFoundWhileAbsent ==
    (router.pc = "returned" /\ router.absent_throughout) => NotFoundReturned

\* more than ten capabilities were enabled when the missing name was asked
\* for, and the hint lists the first ten
C19_Witness ==
    /\ router.pc = "returned"
    /\ router.absent_throughout
    /\ Cardinality(router.enabled_at_listing) > 10
    /\ Len(router.available) = 10
    /\ router.result.error.code = "TOOL_NOT_FOUND"

\* C20: when the executable of a registered, enabled capability returns a
\* value that is not a map or that lacks the outputs key, the Router returns
\* the schema-violation Envelope (status error, SCHEMA_VIOLATION, not
\* retryable) in its place; when it returns a map with outputs, the Router
\* returns that value unchanged; the executable was invoked exactly once.
C20_OutputShapeChecked ==
    (router.pc = "returned" /\ router.runner # NoRunner /\ router.raised = "none") =>
        LET value == router.outcome.value
        IN  /\ router.invoked = 1
            /\ (value.kind # "dict" \/ value.outputs = "absent") =>
                   /\ router.result = make_invalid_output_envelope
                   /\ router.result.status = "error"
                   /\ router.result.error.code = "SCHEMA_VIOLATION"
                   /\ router.result.error.retryable = "false"
            /\ (value.kind = "dict" /\ value.outputs # "absent") =>
                   router.result = value

\* an executable returned a map without outputs and the Router answered
\* with the schema-violation Envelope
C20_Witness ==
    /\ router.pc = "returned"
    /\ router.runner # NoRunner
    /\ router.invoked = 1
    /\ router.outcome.value.kind = "dict"
    /\ router.outcome.value.outputs = "absent"
    /\ router.result.error.code = "SCHEMA_VIOLATION"

RoutingCodes == {"TOOL_NOT_FOUND", "PERMISSION_DENIED", "SCHEMA_VIOLATION"}

\* C21: the Router contains no failure of an executable.  When the
\* executable it invoked raised, the same failure leaves the Router and the
\* Router returns no Envelope of its own; the only Envelopes it makes itself
\* are the not-found, the disabled and the schema-violation one.  With the
\* Router as the Guard's invocation function, such a failure ends as the
\* EXECUTION_OOM, EXECUTION_TIMEOUT or EXECUTION_CRASH Envelope of its class
\* and never as a routing error code.
C21_RouterContainsNothing ==
    /\ router.pc = "returned" /\ router.invoked > 0 =>
           /\ router.raised = router.outcome.raises
           /\ router.raised = "none" =>
                  \/ router.result = router.outcome.value
                  \/ router.result = make_invalid_output_envelope
    /\ router.pc = "returned" /\ router.invoked = 0 =>
           /\ router.raised = "none"
           /\ router.result.error.code \in {"TOOL_NOT_FOUND", "PERMISSION_DENIED"}
    /\ last.node = "execute_skill" /\ router.outcome.raises \in Exceptions =>
           /\ last.call.outcome.raises = router.outcome.raises
           /\ last.raised = "none"
           /\ "error" \in last.update.keys
           /\ last.update.error.code = FailureClassError(router.outcome.raises).code
           /\ last.update.error.code \notin RoutingCodes
           /\ error = last.update.error

\* an executable reached through the Router ran out of time, and the Guard
\* around the Router answered with EXECUTION_TIMEOUT
C21_Witness ==
    /\ router.pc = "returned"
    /\ router.invoked = 1
    /\ router.raised = "TimeoutError"
    /\ last.node = "execute_skill"
    /\ last.decision = "router"
    /\ error.code = "EXECUTION_TIMEOUT"

\* what the claim says of a name whose disable window w is open, and of a
\* Router call made and ended inside the window
SoftlyDisabled(name) ==
    /\ get(registry, name) # NoSkill
    /\ get(registry, name).name = name
    /\ Contains(registry, name)
    /\ get_runner(registry, name) = NoRunner

DeniedWithoutInvoking ==
    /\ router.result = make_disabled_envelope
    /\ router.result.error.code = "PERMISSION_DENIED"
    /\ router.result.error.retryable = "false"
    /\ router.invoked = 0
    /\ router.raised = "none"

\* C22 as stated: after disable(name) returned and until enable(name) or a
\* new register of the name, lookup still returns the metadata, the name
\* still counts as registered, get_runner returns nothing and a Router call
\* for the name returns PERMISSION_DENIED (retryable false) without invoking
\* the executable; after enable(name) the same executable is reachable.
C22_DisableIsSoft ==
    /\ \A name \in DOMAIN soft :
           /\ Disabled(soft[name]) => SoftlyDisabled(name)
           /\ soft[name].phase = "enabled" =>
                  get_runner(registry, name) = soft[name].runner
    /\ router.pc = "returned" /\ router.disabled_throughout => DeniedWithoutInvoking

\* C22 with the window also closed by unregister(name): after disable(name)
\* returned and until enable(name), a new register of the name or
\* unregister(name), the metadata is still returned, the name counts as
\* registered, get_runner returns nothing and a Router call for the name
\* returns PERMISSION_DENIED without invoking; after enable(name) the same
\* executable is reachable again.
C22_DisableIsSoftUntilRemoved ==
    /\ \A name \in DOMAIN soft :
           /\ DisabledAndKept(soft[name]) => SoftlyDisabled(name)
           /\ soft[name].phase = "enabled" /\ ~soft[name].unregistered =>
                  /\ get_runner(registry, name) = soft[name].runner
                  /\ get(registry, name).enabled
    /\ router.pc = "returned" /\ router.kept_throughout => DeniedWithoutInvoking

\* a Router call for a disabled name was denied, and after enable(name) the
\* executable the entry had is reachable again
C22_Witness ==
    /\ router.pc = "returned"
    /\ router.kept_throughout
    /\ router.result = make_disabled_envelope
    /\ soft[router.skill_name].phase = "enabled"
    /\ ~soft[router.skill_name].unregistered
    /\ soft[router.skill_name].runner = "run"
    /\ get_runner(registry, router.skill_name) = "run"

InCriticalSection == {t \in DOMAIN threads : threads[t].pc # "idle"}

\* C23: with several threads calling register, unregister, enable, disable
\* and the reads, no two operations are inside the critical section at once,
\* and the contents of the directory and the value every operation returns
\* are those of running the operations one after another, in the order in
\* which they took the lock.
C23_OperationsSerialized ==
    /\ Cardinality(InCriticalSection) <= 1
    /\ \A t \in InCriticalSection : lock = t
    /\ \A t \in DOMAIN threads :
           /\ threads[t].pc = "inside" =>
                  /\ threads[t].seen = registry
                  /\ threads[t].seen = IF completed.op = NoOp THEN <<>>
                                       ELSE completed.after
           /\ threads[t].pc = "leaving" =>
                  /\ registry = Contents(threads[t].op, threads[t].seen)
                  /\ threads[t].result = Returned(threads[t].op, threads[t].seen)
    /\ completed.op # NoOp =>
           /\ completed.after = Contents(completed.op, completed.before)
           /\ completed.result = Returned(completed.op, completed.before)
           /\ InCriticalSection = {} => registry = completed.after

\* one thread is inside a read while the other, which unregistered a name
\* just before, waits outside
C23_Witness ==
    /\ completed.op.kind = "unregister"
    /\ completed.result = TRUE
    /\ \E t \in DOMAIN threads :
           /\ t # completed.thread
           /\ threads[t].pc = "leaving"
           /\ threads[t].op.kind = "list_all"
           /\ threads[t].result # <<>>

\* C24: register is insert-or-replace and never fails on a duplicate name.
\* After register(s) the lookup of s.name returns s itself, with s's own
\* executable and enabled flag whatever the entry it replaced was; the
\* directory holds at most one entry per name; its size grew by one exactly
\* when the name was absent before.
C24_RegisterInsertsOrReplaces ==
    /\ \A i, j \in 1..Len(registry) : registry[i].name = registry[j].name => i = j
    /\ completed.op.kind = "register" =>
           LET s == SkillMeta(completed.op.name, completed.op.runner,
                              completed.op.enabled)
           IN  /\ completed.result = None
               /\ get(completed.after, s.name) = s
               /\ get_runner(completed.after, s.name) =
                      IF s.enabled THEN s.runner ELSE NoRunner
               /\ Cardinality({i \in 1..Len(completed.after) :
                                  completed.after[i].name = s.name}) = 1
               /\ Len(completed.after) =
                      Len(completed.before)
                      + (IF Contains(completed.before, s.name) THEN 0 ELSE 1)
               /\ \A name \in RegistryNames \ {s.name} :
                      get(completed.after, name) = get(completed.before, name)

\* a disabled entry was replaced by an enabled one with another executable,
\* beside a second entry that stayed
C24_Witness ==
    /\ completed.op.kind = "register"
    /\ completed.op.enabled
    /\ Len(completed.before) = 2
    /\ Len(completed.after) = 2
    /\ ~get(completed.before, completed.op.name).enabled
    /\ get(completed.before, completed.op.name).runner # completed.op.runner
    /\ get_runner(completed.after, completed.op.name) = completed.op.runner
    /\ registry = completed.after

\* C25: every decision of decide_retry, retry, escalate and end alike, adds
\* exactly one entry to the audit log, and the entry names the decision.
C25_EveryDecisionLogged ==
    last.node = "decide_retry" =>
        /\ "research_log" \in last.update.keys
        /\ Len(last.update.research_log) = 1
        /\ last.update.research_log[1].stage = "retry_decider"
        /\ last.update.research_log[1].detail = last.decision

\* the tool-result turns that follow the directive at d without a break
FollowingResults(h, d) ==
    {t \in (d + 1)..Len(h) : \A k \in (d + 1)..t : h[k].type = "tool"}

\* a directive whose calls are not all answered by the tool-result turns that
\* follow it, or a tool-result turn that answers no call of the directive
\* before it
Malformed(h) ==
    \/ \E d \in DirectivePositions(h) :
           \E c \in h[d].tool_calls :
               \A t \in FollowingResults(h, d) : h[t].tool_call_id # c
    \/ \E t \in 1..Len(h) :
           /\ h[t].type = "tool"
           /\ \A d \in DirectivePositions(h) :
                  t \in FollowingResults(h, d) => h[t].tool_call_id \notin h[d].tool_calls

\* C26: on a history with a malformed round structure the trimmer proposes
\* no deletion at all.
C26_MalformedKeepsAll ==
    (trim.phase = "done" /\ Malformed(trim.input)) => trim.first = {}

\* C27: for every claimed entry store_artifacts receives exactly one of two
\* things happens: the file exists and exactly one Artifact Record is emitted
\* for it, or it does not and its path is named in the skip log entry; no
\* entry is left with neither, and there is no record for an entry whose
\* file does not exist.
C27_EveryClaimAccounted ==
    last.node = "store_artifacts" =>
        LET paths   == namespace_delta.new_artifacts
            records == IF "artifacts" \in last.update.keys
                       THEN last.update.artifacts ELSE <<>>
            named   == IF /\ "research_log" \in last.update.keys
                          /\ last.update.research_log[1].flag
                       THEN ScanClaimed(paths).skipped ELSE <<>>
        IN  /\ records = SelectSeq(paths, LAMBDA a : a.exists)
            /\ named = SelectSeq(paths, LAMBDA a : ~a.exists)
            /\ artifacts = records

CoreNodes == {"configure_node", "execute_skill", "classify_error", "decide_retry",
              "store_artifacts", "audit_namespace"}

\* C28: across any sequence of core node executions the audit log is
\* append-only: the merge of a node's update keeps every earlier entry in
\* place and in order and adds the node's new entries at the end.
C28_AuditLogAppendOnly ==
    [][/\ Len(research_log') >= Len(research_log)
       /\ SubSeq(research_log', 1, Len(research_log)) = research_log
       /\ (last' # last /\ last'.node \in CoreNodes) =>
              research_log' = research_log
                              \o (IF "research_log" \in last'.update.keys
                                  THEN last'.update.research_log ELSE <<>>)]_vars

\* the log holds the entries of several nodes, the newest at the end
C28_Witness ==
    /\ last.node = "decide_retry"
    /\ last.update.research_log # <<>>
    /\ Len(research_log) >= 4
    /\ research_log[Len(research_log)] = last.update.research_log[1]
    /\ research_log[1].stage = "configure"
    /\ \E i \in 1..Len(research_log) : research_log[i].stage = "tool_message_formatted"
    /\ \E i \in 1..Len(research_log) : research_log[i].stage = "error_classifier"

\* C29: for every history, the deletion markers of summarize_and_trim with
\* keep_recent_rounds = k name exactly the identifiers build_remove_messages
\* returns for keep_rounds = k and the same user protection; in particular
\* the escalation path deletes no protected user turn.
C29_SameDeletionSet ==
    trim.phase = "done" =>
        /\ trim.summarized.remove = trim.first
        /\ trim.summarized.remove
               \cap ProtectedIds(trim.input, trim.keep_first_n_human) = {}

\* C30: with the default thresholds, should_summarize(trim_stats(h)) implies
\* should_trim(h) for every history h (escalation is considered only where
\* trimming already is), and some history has should_trim true while
\* should_summarize is false.
C30_SummarizeImpliesTrim ==
    should_summarize(trim_stats(messages), threshold_tokens) =>
        should_trim(messages, DEFAULT_MAX_TOTAL_CHARS, DEFAULT_MAX_ROUNDS)

\* a history that both functions accept, and whose turns before the last
\* one were already due for trimming but not yet for the summary
C30_Witness ==
    /\ messages # <<>>
    /\ should_summarize(trim_stats(messages), threshold_tokens)
    /\ should_trim(messages, DEFAULT_MAX_TOTAL_CHARS, DEFAULT_MAX_ROUNDS)
    /\ LET before == SubSeq(messages, 1, Len(messages) - 1)
       IN  /\ should_trim(before, DEFAULT_MAX_TOTAL_CHARS, DEFAULT_MAX_ROUNDS)
           /\ ~should_summarize(trim_stats(before), threshold_tokens)
    /\ last.node = "configure_node"

\* the Envelopes that differ from v only in their audit log
AuditLogVariants(v) ==
    {[v EXCEPT !.full_log = f, !.research_log = l, !.log_chars = n,
               !.artifacts = a, !.provenance = p] :
        f \in {"absent", "dict", "nondict"},
        l \in {<<>>, <<LogEntry("warn", "EXECUTION_CRASH", FALSE)>>},
        n \in {0, 2080, 12000},
        a \in {<<>>, <<Claimed("str", TRUE)>>},
        p \in {0, 1}}

\* C31: the string put into the conversation depends only on the status, the
\* summary fields and the error object of the Envelope (without summary: on
\* outputs less the audit log).  Two Envelopes that differ only in their
\* audit log give the same string, so the stack trace of the Guard, capped at
\* 2,000 characters, is in the audit log only and never in the content.
C31_ContentIgnoresAuditLog ==
    (Formatted /\ IsEnvelope(last.call.outcome.value)) =>
        LET v == last.call.outcome.value
        IN  /\ \A w \in AuditLogVariants(v) :
                   format_skill_output_to_string(w)
                       = [raised |-> last.raised, content |-> last.content]
            /\ last.content.payload.summary_chars
                   = IF v.summary = "dict" THEN v.summary_chars ELSE v.raw_chars
            /\ \A code \in {"EXECUTION_OOM", "EXECUTION_TIMEOUT", "EXECUTION_CRASH"} :
               \A c \in TextChars :
                   v = make_crash_envelope(code, c, 300 + c, code # "EXECUTION_CRASH") =>
                       /\ v.log_chars <= 80 + c + 2000
                       /\ format_skill_output_to_string(
                              make_crash_envelope(code, c, 0, code # "EXECUTION_CRASH"))
                              = [raised |-> last.raised, content |-> last.content]

\* the Envelope of a crash with a stack trace longer than the cap was
\* formatted, twice with the same result: the capped trace is in its audit log
C31_Witness ==
    /\ Formatted
    /\ last.call.outcome.value = make_crash_envelope("EXECUTION_CRASH", 12000, 12300, FALSE)
    /\ last.call.outcome.value.log_chars = 14080
    /\ last.raised = "none"
    /\ last.decision = "same"

\* C32: once the update of execute_skill for a call that returned status ok
\* is merged into a state that still held the error of an earlier failed
\* call, the state holds no error any more, and the next decide_retry yields
\* end.
C32_SuccessClearsError ==
    (/\ last.node = "execute_skill"
     /\ last.raised = "none"
     /\ last.update.status = "ok"
     /\ Truthy(last.in_error)) =>
        /\ ~Truthy(error)
        /\ Decision(error, retry_count) = "end"

\* C33: while other threads only enable and disable, a Router call for a
\* capability that stays registered with an executable for the whole call
\* returns the result of the executable or the permission-denied Envelope,
\* never the not-found Envelope.
C33_RegisteredNeverNotFound ==
    (router.pc = "returned" /\ router.toggled_only) =>
        \/ router.invoked = 1
        \/ router.result = make_disabled_envelope

\* C34: get_global_registry returns the same instance to every caller, also
\* when several threads make their first call at once, so a capability
\* registered through the instance one thread obtained is visible through
\* the instance any other thread obtained.
C34_OneGlobalInstance ==
    \A t, u \in DOMAIN threads :
        (threads[t].obtained # None /\ threads[u].obtained # None) =>
            /\ threads[t].obtained = threads[u].obtained
            /\ \A name \in RegistryNames :
                   Contains(global_registry.instances[threads[t].obtained], name)
                       => Contains(global_registry.instances[threads[u].obtained], name)

(***************************************************************************)
(* SpecSummary: the escalation path run on a growing history.  Rounds (a   *)
(* directive with one call and its result) and user turns are appended     *)
(* with fresh identifiers, at most MaxRounds rounds in a run, and at any   *)
(* point summarize_and_trim is run with some keep_recent_rounds and some   *)
(* answer of the language model (the length of its text, 1 or 2)   ,    *)
(* its update merged into the state.                                       *)
(***************************************************************************)
MaxRounds == 3

InitSummary ==
    /\ InitialState
    /\ pc = "summary"
    /\ pending = <<>>
    /\ config = DefaultConfig
    /\ nextId = 1
    /\ nextCall = 1
    /\ last = Invocation("none", NoCall, "none", NoUpdate, NoContent, "none")
    /\ trim = NoTrim
    /\ NoRouting

AddTurns(turns, calls) ==
    /\ pc = "summary"
    /\ messages' = messages \o turns
    /\ nextId' = nextId + Len(turns)
    /\ nextCall' = nextCall + calls
    /\ last' = Invocation("none", NoCall, "none", NoUpdate, NoContent, "none")
    /\ UNCHANGED <<research_log, artifacts, provenance, status, error,
                   namespace_delta, retry_count>>
    /\ UNCHANGED <<pc, pending, config, trim, registry, router,
                   soft, lock, threads, completed, global_registry>>

AddRound ==
    /\ nextCall <= MaxRounds
    /\ AddTurns(<<AIMessage(nextId, {nextCall}, 0),
                  ToolMessage(nextId + 1, nextCall, 0)>>, 1)

AddUserTurn ==
    /\ nextId <= 2 * nextCall - 1
    /\ AddTurns(<<HumanMessage(nextId, 0)>>, 0)

\* summarize_and_trim and the merge of its update (lines 65-92): nothing when
\* no turn is old, else the summary turn followed by the deletion markers
Summarize(keep_recent_rounds, text) ==
    /\ pc = "summary"
    /\ LET s == summarize_and_trim(messages, keep_recent_rounds)
           u == [NoUpdate EXCEPT
                    !.keys = {"messages"},
                    !.messages = [append |-> IF s.summary
                                             THEN <<SystemMessage(SUMMARY_MSG_ID, text)>>
                                             ELSE <<>>,
                                  remove |-> s.remove]]
       IN  /\ last' = Invocation("summarize_and_trim", NoCall, "none", u,
                                 NoContent, "none")
           /\ Merge(u)
    /\ nextCall' = nextCall
    /\ UNCHANGED <<pc, pending, config, trim, registry, router,
                   soft, lock, threads, completed, global_registry>>

NextSummary ==
    \/ AddRound
    \/ AddUserTurn
    \/ \E k \in 0..MaxKeep, text \in {1, 2} : Summarize(k, text)

SpecSummary == InitSummary /\ [][NextSummary]_vars

SummaryTurns == {i \in 1..Len(messages) : messages[i].id = SUMMARY_MSG_ID}

\* C35: once the update of a summarization that produced a summary is merged,
\* the history holds exactly one summary turn and it carries the summary
\* just produced, whether or not an earlier summary turn was in the history.
C35_OneNewestSummaryTurn ==
    (/\ pc = "summary" /\ last.node = "summarize_and_trim"
     /\ last.update.messages.append # <<>>) =>
        /\ Cardinality(SummaryTurns) = 1
        /\ \A i \in SummaryTurns : messages[i] = last.update.messages.append[1]

(***************************************************************************)
(* SpecLoop: a long loop run.  After the user's turn every iteration runs  *)
(* configure_node and then adds one round (a directive with one call and   *)
(* its result) or, once, an answer in plain text; the reducer gives every  *)
(* turn an identifier.  MaxIterations lets the number of assistant turns   *)
(* pass the trigger of should_trim.                                        *)
(***************************************************************************)
MaxIterations == 22

InitLoop ==
    /\ InitialState
    /\ pc = "user"
    /\ pending = <<>>
    /\ config \in {DefaultConfig}
           \cup {[keys |-> {"keep_rounds"}, keep_rounds |-> k,
                  keep_first_n_human |-> 0] : k \in 1..MaxKeep}
    /\ nextId = 1
    /\ nextCall = 1
    /\ last = Invocation("none", NoCall, "none", NoUpdate, NoContent, "none")
    /\ trim = NoTrim
    /\ NoRouting

LoopTurns(turns, calls) ==
    /\ pc = "llm"
    /\ last' = Invocation("llm", NoCall, "none",
                          [NoUpdate EXCEPT !.keys = {"messages"},
                              !.messages = [append |-> turns, remove |-> {}]],
                          NoContent, "none")
    /\ Merge(last'.update)
    /\ nextCall' = nextCall + calls
    /\ pc' = "configure"
    /\ UNCHANGED <<pending, config, trim, registry, router,
                   soft, lock, threads, completed, global_registry>>

LoopRound ==
    /\ nextCall <= MaxIterations
    /\ LoopTurns(<<AIMessage(None, {nextCall}, 0), ToolMessage(None, nextCall, 20)>>, 1)

LoopAnswer ==
    /\ \A i \in 1..Len(messages) :
           ~(messages[i].type = "ai" /\ messages[i].tool_calls = {})
    /\ LoopTurns(<<AIMessage(None, {}, 20)>>, 0)

NextLoop ==
    \/ \E c \in UserChars : UserTurn(c)
    \/ ConfigureNode
    \/ LoopRound
    \/ LoopAnswer

SpecLoop == InitLoop /\ [][NextLoop]_vars

\* C36: in a loop run where configure_node runs before each directive, each
\* iteration adds at most one round and every turn has an identifier, the
\* history holds at most 2 x keep_rounds rounds once configure_node's update
\* is merged, keep_rounds (at least 1) being the value configured for the run.
C36_RoundsBounded ==
    (/\ last.node = "configure_node"
     /\ ConfigGet(config, "keep_rounds", 10) >= 1) =>
        Len(IdentifyRounds(messages)) <= 2 * ConfigGet(config, "keep_rounds", 10)

\* the error in the state was made by the core: by the Guard out of an
\* exception, or by the Router (unknown name, disabled capability, result of
\* the wrong shape)
CoreSynthesized ==
    /\ last.node = "execute_skill"
    /\ last.decision = "router"
    /\ last.raised = "none"
    /\ \/ router.raised \in Exceptions
       \/ router.invoked = 0
       \/ router.result = make_invalid_output_envelope

\* C37: every error object made by the Guard or by the Router has the
\* retryable flag that the taxonomy gives as default for its code, and the
\* fallback action retry_with_plan_correction exactly when the flag is true
\* and human_review otherwise; classify_error therefore leaves the decision
\* of decide_retry on such an error as it was, whatever the retry counter.
C37_CoreErrorsFollowTaxonomy ==
    CoreSynthesized =>
        /\ Truthy(error)
        /\ error = last.update.error
        /\ error.code \in TaxonomyCodes
        /\ error.retryable = ERROR_CATEGORIES(error.code).retryable
        /\ error.retryable \in {"true", "false"}
        /\ error.fallback_action = IF error.retryable = "true"
                                   THEN "retry_with_plan_correction"
                                   ELSE "human_review"
        /\ classify_error(error).error.retryable = error.retryable
        /\ \A count \in 0..MaxCounter :
               Decision(classify_error(error).error, count) = Decision(error, count)

\* the Router refused a result of the wrong shape and the Guard passed the
\* Router's error on: not retryable, before and after classification
C37_Witness ==
    /\ CoreSynthesized
    /\ router.invoked = 1
    /\ error.code = "SCHEMA_VIOLATION"
    /\ error.fallback_action = "human_review"
    /\ classify_error(error).error.category = "CONTRACT"
    /\ Decision(classify_error(error).error, 0) = "escalate"

\* the audit entry execute_skill wrote for the content it formatted
FormattedEntry == last.update.research_log[Len(last.update.research_log)]

\* C38: the truncated flag in the audit entry of execute_skill is true exactly
\* when the formatter cut the content (serialized form longer than 10,000
\* characters) and false when the content was passed through unchanged.
C38_TruncatedFlagExact ==
    (last.node = "execute_skill" /\ last.raised = "none") =>
        /\ FormattedEntry.stage = "tool_message_formatted"
        /\ FormattedEntry.flag = last.content.notice
        /\ FormattedEntry.flag = (SerializedChars(last.content.payload) > MAX_CONTENT_CHARS)
====
